---- MODULE Spec2Model ----
(***************************************************************************)
(* A model of the PCFG guess enumerator of pcfg_cracker:                   *)
(*   core_grammar.py   PcfgClass  (grammar, parse-tree algebra, the        *)
(*                                 deadbeat-dad successor function)        *)
(*   priority_queue.py PcfgQueue  (the ranked queue: initialize,           *)
(*                                 next_function, trim_queue,              *)
(*                                 rebuild_queue)                          *)
(* and of the scorer that shares the grammar's probability tables:         *)
(*   pcfg_grammar.py   PcfgGrammar (create_multiword_detector, parse)      *)
(*                                                                         *)
(* Representation.                                                         *)
(*  - A parse tree is the triple <<g, r, children>> of the code's list     *)
(*    [g, r, [...]]; g and r stay 0-based as in the code, so the grammar   *)
(*    sequence is read at g+1 and a replacement list at r+1.               *)
(*  - The code edits parse trees in place through aliases (cur_node is a   *)
(*    node inside parent).  An alias is modelled as the path (sequence of  *)
(*    1-based child positions) from the root to the node, and every        *)
(*    in-place edit as a function from the tree before to the tree after,  *)
(*    so that an edit the code forgot to undo would show in the result.    *)
(*  - A probability is an exact rational <<n, d>> in lowest terms: the     *)
(*    code's float products are modelled by exact products, and float      *)
(*    == / < / <= by comparison of the rationals.  Rounding is not         *)
(*    modelled.                                                            *)
(*  - heapq is modelled as CPython implements it (heappush / heappop with  *)
(*    _siftdown / _siftup on an array), so the order among equal           *)
(*    probabilities is the one the program produces.                       *)
(*  - An uncaught Python exception is modelled by the field raised of the  *)
(*    queue object record and ends the run (pc = "crashed").               *)
(*  - A next_function call that never returns ends the run too             *)
(*    (pc = "looping"); the object is left as the loop keeps finding it.   *)
(*  - With(e, LAMBDA v : body) is  "v = e; body": it evaluates e once.     *)
(***************************************************************************)
EXTENDS Integers, Sequences, FiniteSets, TLC

VARIABLES
    grammar,          \* PcfgClass.grammar
    max_queue_size,   \* PcfgQueue.max_queue_size
    reduction_size,   \* PcfgQueue.reduction_size
    p_queue,          \* PcfgQueue.p_queue, the heap array
    max_probability,  \* PcfgQueue.max_probability
    min_probability,  \* PcfgQueue.min_probability
    pc,               \* "new" | "ready" | "error" | "done" | "crashed" | "looping"
    ret,              \* what the last call returned (a RetType name), or the exception raised
    start_idx,        \* history: what start_index() returned to initialize
    queue_item_list,  \* history: the QueueItems next_function appended for its caller
    popped,           \* history: the parse trees next_function popped, in order
    trims,            \* history: number of trim_queue calls so far
    rebuilds,         \* history: number of rebuild_queue calls so far
    last_trim,        \* history: the last trim_queue call of the last next_function call
    rebuilt,          \* history: what the last rebuild_queue call pushed on the queue
    offered,          \* history: the children PcfgQueue.deadbeat_dad has offered to the queue
    calls,            \* history: number of next_function calls so far
    dd_pt,            \* the argument of the last direct PcfgClass.deadbeat_dad call (<<>> if none)
    dd_children,      \* the list that call returned
    dd_after,         \* the argument tree as the call left it
    method,           \* the PcfgClass method a host called last ("NONE" if none)
    arg,              \* the parse tree it was called on
    result,           \* what it returned, or the exception it raised
    expand_terminals_default,
                      \* the items of the list object that is the default value of
                      \* expand_terminals' parameter working_value (line 133)
    pcfg_grammar,     \* the PcfgGrammar object: its count_* tables and multiword_detector
    parsed            \* history: the last PcfgGrammar.parse call (what the detectors
                      \* found, what was consulted, what it returned)

vars == <<grammar, max_queue_size, reduction_size, p_queue, max_probability,
          min_probability, pc, ret, start_idx, queue_item_list, popped, trims,
          rebuilds, last_trim, rebuilt, offered, calls, dd_pt, dd_children, dd_after,
          method, arg, result, expand_terminals_default, pcfg_grammar, parsed>>

-----------------------------------------------------------------------------
(* Bounds of the model.                                                    *)

\* next_function is called at most MaxCalls times in one run.
MaxCalls == 7

\* The queue parameters tried: 2 <= max_queue_size <= MaxQueueSize and
\* 1 <= reduction_size < max_queue_size.
MaxQueueSize == 3

\* list_terminals is called while the default list of expand_terminals holds
\* fewer than MaxDefaultLen items.
MaxDefaultLen == 2

\* The detectors find at most MaxFragments fragments in an input of parse.
MaxFragments == 2

\* A count_alpha table given to create_multiword_detector has at most MaxWords
\* words, with counts 1..MaxCount.
MaxWords == 6
MaxCount == 5

-----------------------------------------------------------------------------------------------------------------------------------------------------
\* v = e; F(v)
With(e, F(_)) == CHOOSE r \in { F(v) : v \in {e} } : TRUE

(* Probabilities: exact rationals <<n, d>>, d > 0, in lowest terms.        *)

RECURSIVE Gcd(_, _)
Gcd(a, b) == IF b = 0 THEN a ELSE Gcd(b, a % b)

Q(n, d) == With(Gcd(n, d), LAMBDA g : <<n \div g, d \div g>>)

PMul(a, b) == Q(a[1] * b[1], a[2] * b[2])
PLt(a, b)  == a[1] * b[2] < b[1] * a[2]
PLe(a, b)  == a[1] * b[2] <= b[1] * a[2]

P0 == <<0, 1>>     \* 0.0
P1 == <<1, 1>>     \* 1.0

-----
(* Grammars.  A non-terminal is [name, type, replacements]; a replacement  *)
(* is [is_terminal, prob, pos, function, values] (core_grammar.py 31-59).  *)
(* values is a sequence of words, a word the sequence of its characters.   *)

Rep(term, prob, pos, fn, values) ==
    [is_terminal |-> term, prob |-> prob, pos |-> pos, function |-> fn, values |-> values]

NT(name, type, reps) == [name |-> name, type |-> type, replacements |-> reps]

Leaf(prob, values) == Rep(TRUE, prob, <<>>, "Copy", values)

\* Scenario S1, START last: Cap(0), L(1), START(2).
GrammarS1 ==
    << NT("Cap", "Cap", << Rep(TRUE, Q(6, 10), <<>>, "Capitalization", << <<"U", "L", "L">> >>) >>),
       NT("L", "L", << Rep(FALSE, P1, <<0>>, "Shadow", << <<"c", "a", "t">> >>) >>),
       NT("START", "START", << Rep(FALSE, P1, <<1>>, "Transparent", <<>>) >>) >>

\* Scenario S1 with START first: START(0), L(1), Cap(2).
GrammarS1First ==
    << NT("START", "START", << Rep(FALSE, P1, <<1>>, "Transparent", <<>>) >>),
       NT("L", "L", << Rep(FALSE, P1, <<2>>, "Shadow", << <<"c", "a", "t">> >>) >>),
       NT("Cap", "Cap", << Rep(TRUE, Q(6, 10), <<>>, "Capitalization", << <<"U", "L", "L">> >>) >>) >>

\* Scenario S3: the single non-terminal A is the START, two terminal Copy replacements.
GrammarS3 ==
    << NT("A", "START", << Leaf(Q(9, 10), << <<"a">> >>), Leaf(Q(1, 10), << <<"b">> >>) >>) >>

\* START -> A B with Copy leaves: A(0), B(1), START(2).
Grammar2(pa, pb, ps) ==
    << NT("A", "A", [i \in 1..Len(pa) |-> Leaf(pa[i], << <<"a">> >>)]),
       NT("B", "B", [i \in 1..Len(pb) |-> Leaf(pb[i], << <<"1">> >>)]),
       NT("START", "START", [i \in 1..Len(ps) |-> Rep(FALSE, ps[i], <<0, 1>>, "Transparent", <<>>)]) >>

GrammarAB   == Grammar2(<<Q(6, 10), Q(4, 10), Q(2, 10)>>, <<Q(7, 10), Q(3, 10), Q(1, 10)>>, <<Q(9, 10)>>)
GrammarTies == Grammar2(<<Q(3, 10), Q(3, 10), Q(3, 10)>>, <<Q(3, 10), Q(3, 10), Q(3, 10)>>, <<Q(9, 10)>>)
GrammarTwo  == Grammar2(<<Q(6, 10), Q(4, 10)>>, <<Q(7, 10), Q(3, 10)>>, <<Q(6, 10), Q(4, 10)>>)
GrammarMixed == Grammar2(<<Q(6, 10), Q(3, 10), Q(1, 10)>>, <<Q(5, 10), Q(25, 100), Q(25, 100)>>,
                         <<Q(6, 10), Q(4, 10)>>)

\* No non-terminal of type START.
GrammarNoStart == << NT("A", "A", << Leaf(Q(9, 10), << <<"a">> >>) >>) >>

\* START -> A B C D with Copy leaves: A, B and C have two replacements of equal
\* probability, D's second replacement is less probable than its first.
GrammarFour ==
    << NT("A", "A", << Leaf(Q(1, 2), << <<"a">> >>), Leaf(Q(1, 2), << <<"b">> >>) >>),
       NT("B", "B", << Leaf(Q(1, 2), << <<"1">> >>), Leaf(Q(1, 2), << <<"2">> >>) >>),
       NT("C", "C", << Leaf(Q(1, 2), << <<"x">> >>), Leaf(Q(1, 2), << <<"y">> >>) >>),
       NT("D", "D", << Leaf(Q(1, 2), << <<"!">> >>), Leaf(Q(1, 4), << <<"?">> >>) >>),
       NT("START", "START", << Rep(FALSE, Q(1, 2), <<0, 1, 2, 3>>, "Transparent", <<>>) >>) >>

\* START -> A B, the second replacement of START more probable than START's
\* first replacement followed by the first replacements of A and B.
GrammarSteep == Grammar2(<<Q(9, 10), Q(1, 10)>>, <<Q(9, 10), Q(1, 10)>>, <<Q(6, 10), Q(4, 10)>>)

Grammars == { GrammarS1, GrammarS1First, GrammarS3, GrammarAB, GrammarTies, GrammarTwo,
              GrammarMixed, GrammarFour, GrammarSteep, GrammarNoStart, <<>> }

\* Grammars for the functions of PcfgClass that the queue does not call.

\* START -> W D, two Copy leaves of two words each: W(0), D(1), START(2).
GrammarWords ==
    << NT("W", "W", << Leaf(Q(5, 10), << <<"c", "a", "t">>, <<"d", "o", "g">> >>) >>),
       NT("D", "D", << Leaf(Q(5, 10), << <<"1">>, <<"2">> >>) >>),
       NT("START", "START", << Rep(FALSE, P1, <<0, 1>>, "Transparent", <<>>) >>) >>

\* START -> X D with X -> W, a Transparent below the root: W(0), D(1), X(2), START(3).
GrammarNested ==
    << NT("W", "W", << Leaf(Q(5, 10), << <<"c", "a", "t">>, <<"d", "o", "g">> >>) >>),
       NT("D", "D", << Leaf(Q(5, 10), << <<"1">>, <<"2">> >>) >>),
       NT("X", "X", << Rep(FALSE, P1, <<0>>, "Transparent", <<>>) >>),
       NT("START", "START", << Rep(FALSE, P1, <<2, 1>>, "Transparent", <<>>) >>) >>

\* START -> L -> Cap with the words cat, to and the given masks: Cap(0), L(1), START(2).
GrammarCap(masks) ==
    << NT("Cap", "Cap", << Rep(TRUE, Q(6, 10), <<>>, "Capitalization", masks) >>),
       NT("L", "L", << Rep(FALSE, P1, <<0>>, "Shadow", << <<"c", "a", "t">>, <<"t", "o">> >>) >>),
       NT("START", "START", << Rep(FALSE, Q(9, 10), <<1>>, "Transparent", <<>>) >>) >>

\* A mask longer than the word to, and a mask shorter than the word cat.
GrammarCapLong  == GrammarCap(<< <<"U", "L", "L">> >>)
GrammarCapShort == GrammarCap(<< <<"U", "L">> >>)

\* The START non-terminal has one Copy replacement with two values, and one with one.
GrammarCopy ==
    << NT("A", "START", << Leaf(Q(9, 10), << <<"1", "2">>, <<"3", "4">> >>),
                           Leaf(Q(1, 10), << <<"a", "b", "c">> >>) >>) >>

\* START -> L D, L -> Cap (two masks), D with two Copy replacements:
\* Cap(0), L(1), D(2), START(3).
GrammarDeep ==
    << NT("Cap", "Cap", << Rep(TRUE, Q(6, 10), <<>>, "Capitalization", << <<"U", "L", "L">> >>),
                           Rep(TRUE, Q(4, 10), <<>>, "Capitalization", << <<"L", "L", "L">> >>) >>),
       NT("L", "L", << Rep(FALSE, Q(5, 10), <<0>>, "Shadow",
                           << <<"c", "a", "t">>, <<"d", "o", "g">> >>) >>),
       NT("D", "D", << Leaf(Q(7, 10), << <<"1">>, <<"2">> >>), Leaf(Q(3, 10), << <<"3">> >>) >>),
       NT("START", "START", << Rep(FALSE, Q(9, 10), <<1, 2>>, "Transparent", <<>>) >>) >>

\* START -> A B C with Copy leaves of two replacements each; undoing the
\* increment of A raises the probability most, that of B least: A(0), B(1),
\* C(2), START(3).
GrammarThree ==
    << NT("A", "A", << Leaf(Q(6, 10), << <<"a">> >>), Leaf(Q(1, 10), << <<"b">> >>) >>),
       NT("B", "B", << Leaf(Q(5, 10), << <<"1">> >>), Leaf(Q(4, 10), << <<"2">> >>) >>),
       NT("C", "C", << Leaf(Q(6, 10), << <<"x">> >>), Leaf(Q(2, 10), << <<"y">> >>) >>),
       NT("START", "START", << Rep(FALSE, P1, <<0, 1, 2>>, "Transparent", <<>>) >>) >>

PureGrammars == Grammars \cup { GrammarWords, GrammarNested, GrammarCapLong, GrammarCapShort,
                                GrammarCopy, GrammarDeep,
                                GrammarThree }

-----------------------------------------------------------------------------
(* Parse trees and in-place edits.                                         *)

Replacement(pt) == grammar[pt[1] + 1].replacements[pt[2] + 1]

\* The sequence seq with element i replaced by v.
ReplaceAt(seq, i, v) == SubSeq(seq, 1, i - 1) \o <<v>> \o SubSeq(seq, i + 1, Len(seq))

\* The node an alias (path) refers to.
RECURSIVE NodeAt(_, _)
NodeAt(pt, path) ==
    IF path = <<>> THEN pt ELSE NodeAt(pt[3][Head(path)], Tail(path))

\* The tree after  node[1] = r  on the node at path.
RECURSIVE SetR(_, _, _)
SetR(pt, path, r) ==
    IF path = <<>> THEN <<pt[1], r, pt[3]>>
    ELSE <<pt[1], pt[2], ReplaceAt(pt[3], Head(path), SetR(pt[3][Head(path)], Tail(path), r))>>

\* The tree after  node[2] = children  on the node at path.
RECURSIVE SetChildren(_, _, _)
SetChildren(pt, path, children) ==
    IF path = <<>> THEN <<pt[1], pt[2], children>>
    ELSE <<pt[1], pt[2],
          ReplaceAt(pt[3], Head(path), SetChildren(pt[3][Head(path)], Tail(path), children))>>

\* The tree after  node[1] = node[1] + k  on the node at path.
AddR(pt, path, k) == SetR(pt, path, NodeAt(pt, path)[2] + k)

Range(s) == { s[i] : i \in 1..Len(s) }

-----------------------------------------------------------------------------------------------------------------------------------------------------
(* PcfgClass (core_grammar.py).                                            *)

\* The fallback loop of start_index from position index on: it tests
\* self.grammar[-1], the last entry, at every index.
RECURSIVE start_index_loop(_)
start_index_loop(index) ==
    IF index >= Len(grammar) THEN -1
    ELSE IF grammar[Len(grammar)].type = "START" THEN index
    ELSE start_index_loop(index + 1)

start_index ==
    IF Len(grammar) = 0 THEN -1
    ELSE IF grammar[Len(grammar)].type = "START" THEN Len(grammar) - 1
    ELSE start_index_loop(0)

\* find_probability: the replacement's prob times each child's, left to right.
RECURSIVE find_probability(_), find_probability_loop(_, _, _)
find_probability_loop(pt, current_prob, x) ==
    IF x > Len(pt[3]) THEN current_prob
    ELSE find_probability_loop(pt, PMul(current_prob, find_probability(pt[3][x])), x + 1)

\* find_probability that starts an expanded derivation at 100% and not at the
\* probability of its own replacement.
find_probability_children_only(pt) ==
    IF Len(pt[3]) = 0 THEN Replacement(pt).prob ELSE find_probability_loop(pt, P1, 1)

find_probability(pt) == find_probability_loop(pt, Replacement(pt).prob, 1)

RECURSIVE find_is_terminal(_)
find_is_terminal(pt) ==
    IF Len(pt[3]) = 0 THEN Replacement(pt).is_terminal # FALSE
    ELSE \A x \in 1..Len(pt[3]) : find_is_terminal(pt[3][x]) # FALSE

RECURSIVE copy_node(_)
copy_node(pt) ==
    IF Len(pt) # 3 THEN "None"
    ELSE IF Len(pt[3]) = 0 THEN <<pt[1], pt[2], <<>> >>
    ELSE <<pt[1], pt[2], [i \in 1..Len(pt[3]) |-> copy_node(pt[3][i])]>>

\* An expansion that builds every child from the first element of pos.
NewExpansion_first_pos(node) ==
    With(Replacement(node).pos, LAMBDA pos : [i \in 1..Len(pos) |-> <<pos[1], 0, <<>> >>])

\* The expansion [[x,0,[]] for x in pos] of the node's current replacement.
NewExpansion(node) ==
    With(Replacement(node).pos, LAMBDA pos : [i \in 1..Len(pos) |-> <<pos[i], 0, <<>> >>])

\* The copy of pt with child x replaced by each element of list in turn.
Substituted(pt, x, list) ==
    [k \in 1..Len(list) |-> <<pt[1], pt[2], ReplaceAt(pt[3], x, list[k])>>]

RECURSIVE find_children(_), find_children_from(_, _)
\* The else branch of find_children: the loop over pt[2] from position x on.
find_children_from(pt, x) ==
    IF x > Len(pt[3]) THEN <<>>
    ELSE Substituted(copy_node(pt), x, find_children(pt[3][x])) \o find_children_from(pt, x + 1)

\* find_children whose else branch looks at the first child only.
find_children_first_child(pt) ==
    IF Len(pt[3]) = 0 THEN
        (IF Len(grammar[pt[1] + 1].replacements) > pt[2] + 1
         THEN << SetR(copy_node(pt), <<>>, pt[2] + 1) >>
         ELSE <<>>)
        \o
        (IF grammar[pt[1] + 1].replacements[1].is_terminal # TRUE
         THEN << SetChildren(copy_node(pt), <<>>, NewExpansion(pt)) >>
         ELSE <<>>)
    ELSE Substituted(copy_node(pt), 1, find_children(pt[3][1]))

find_children(pt) ==
    IF Len(pt[3]) = 0 THEN
        (IF Len(grammar[pt[1] + 1].replacements) > pt[2] + 1
         THEN << SetR(copy_node(pt), <<>>, pt[2] + 1) >>
         ELSE <<>>)
        \o
        (IF grammar[pt[1] + 1].replacements[1].is_terminal # TRUE
         THEN << SetChildren(copy_node(pt), <<>>, NewExpansion(pt)) >>
         ELSE <<>>)
    ELSE find_children_from(pt, 1)

RECURSIVE findMyParents(_), findMyParents_from(_, _)
\* The else branch of findMyParents: the loop over pt[2] from position x on.
findMyParents_from(pt, x) ==
    IF x > Len(pt[3]) THEN <<>>
    ELSE Substituted(copy_node(pt), x, findMyParents(pt[3][x])) \o findMyParents_from(pt, x + 1)

\* findMyParents without lines 294-296: an expanded derivation whose children
\* have no parents gets none.
findMyParents_expanded_only(pt) ==
    IF Len(pt[3]) = 0 THEN
        IF pt[2] # 0 THEN << SetR(copy_node(pt), <<>>, pt[2] - 1) >> ELSE <<>>
    ELSE findMyParents_from(pt, 1)

\* findMyParents that adds the non-expanded version whatever the loop found.
findMyParents_always_collapsed(pt) ==
    IF Len(pt[3]) = 0 THEN
        IF pt[2] # 0 THEN << SetR(copy_node(pt), <<>>, pt[2] - 1) >> ELSE <<>>
    ELSE findMyParents_from(pt, 1) \o << SetChildren(copy_node(pt), <<>>, <<>>) >>

findMyParents(pt) ==
    IF Len(pt[3]) = 0 THEN
        IF pt[2] # 0 THEN << SetR(copy_node(pt), <<>>, pt[2] - 1) >> ELSE <<>>
    ELSE With(findMyParents_from(pt, 1), LAMBDA ret_list :
             IF Len(ret_list) = 0
             THEN << SetChildren(copy_node(pt), <<>>, <<>>) >>
             ELSE ret_list)

-----------------------------------------------------------------------------
(* The deadbeat-dad successor function (core_grammar.py 320-440).          *)
(* child, parent and cur_node are aliases of one tree that is edited in    *)
(* place; every operator returns the tree as the code leaves it.           *)

\* dd_is_my_child returns [ret |-> the boolean returned,
\*                         child |-> the argument tree as the call leaves it,
\*                         childs_parent |-> the out-parameter list,
\*                         probed |-> (history) the trees whose probability was compared].
RECURSIVE dd_is_my_child_loop(_, _, _, _, _), dd_compare(_, _, _, _, _, _)

\* Lines 410-417 and 431-438: child has been edited into a candidate parent
\* (edited); compare its probability, then undo the edit (undone).
dd_compare(edited, undone, cur_parse_tree, previous_parent_prob, childs_parent, probed) ==
    With(find_probability(edited), LAMBDA current_parent_prob :
        IF PLt(current_parent_prob, previous_parent_prob)
        THEN [ret |-> FALSE, child |-> undone, childs_parent |-> childs_parent,
              probed |-> Append(probed, edited)]
        ELSE dd_is_my_child_loop(undone, cur_parse_tree, previous_parent_prob,
                IF current_parent_prob = previous_parent_prob /\ Len(childs_parent) = 0
                THEN << copy_node(edited) >> ELSE childs_parent,
                Append(probed, edited)))

\* The while loop of dd_is_my_child; cur_parse_tree is the stack of nodes
\* (paths into child) still to visit.
dd_is_my_child_loop(child, cur_parse_tree, previous_parent_prob, childs_parent, probed) ==
    IF Len(cur_parse_tree) = 0
    THEN [ret |-> TRUE, child |-> child, childs_parent |-> childs_parent, probed |-> probed]
    ELSE
      With(cur_parse_tree[Len(cur_parse_tree)], LAMBDA path :
      With(SubSeq(cur_parse_tree, 1, Len(cur_parse_tree) - 1), LAMBDA rest :
      With(NodeAt(child, path), LAMBDA cur_node :
        IF Len(cur_node[3]) = 0 THEN
            IF cur_node[2] # 0
            THEN With(AddR(child, path, -1), LAMBDA edited :
                     dd_compare(edited, AddR(edited, path, 1), rest,
                                previous_parent_prob, childs_parent, probed))
            ELSE dd_is_my_child_loop(child, rest, previous_parent_prob, childs_parent, probed)
        ELSE
            With(rest \o [x \in 1..Len(cur_node[3]) |-> Append(path, x)], LAMBDA pushed :
                \* empty_list_parent
                IF \A x \in 1..Len(cur_node[3]) : ~(cur_node[3][x][2] # 0)
                THEN With(SetChildren(child, path, <<>>), LAMBDA edited :
                         dd_compare(edited, SetChildren(edited, path, cur_node[3]), pushed,
                                    previous_parent_prob, childs_parent, probed))
                ELSE dd_is_my_child_loop(child, pushed, previous_parent_prob,
                                         childs_parent, probed)))))

dd_is_my_child(child, previous_parent_prob, childs_parent) ==
    dd_is_my_child_loop(child, << <<>> >>, previous_parent_prob, childs_parent, <<>>)

\* find_children_dd returns [parent |-> the tree as the call leaves it,
\*                           my_children_list |-> the list after the call].

\* The edit that makes the potential child, applied to cur_node (the node of t at
\* path): the increment of lines 346, 351 or the expansion of lines 363, 368.
dd_edit(t, path, edit, new_expansion) ==
    IF edit = "increment" THEN AddR(t, path, 1) ELSE SetChildren(t, path, new_expansion)

\* An undo that leaves the edit in place.
dd_undo_forgotten(t, path, edit) == t

\* The same edit undone: lines 349, 353, 355 and 366, 370, 372.
dd_undo(t, path, edit) ==
    IF edit = "increment" THEN AddR(t, path, -1) ELSE SetChildren(t, path, <<>>)

\* Lines 346-355 and 363-372: make the potential child in place, ask
\* dd_is_my_child, undo, and append the child if parent is the parent found.
dd_offer(path, edit, new_expansion, parent, parent_prob, my_children_list) ==
    With(dd_is_my_child(dd_edit(parent, path, edit, new_expansion), parent_prob, <<>>),
         LAMBDA d :
    With(dd_undo(d.child, path, edit), LAMBDA restored :
        IF d.ret /\ restored = d.childs_parent[1]
        THEN With(dd_edit(restored, path, edit, new_expansion), LAMBDA again :
                 [parent |-> dd_undo(again, path, edit),
                  my_children_list |-> Append(my_children_list, copy_node(again))])
        ELSE [parent |-> restored, my_children_list |-> my_children_list]))

\* Lines 342-355: the increment of the leaf cur_node (the node of parent at path).
dd_increment(path, parent, parent_prob, my_children_list) ==
    With(NodeAt(parent, path), LAMBDA cur_node :
        IF Len(grammar[cur_node[1] + 1].replacements) > cur_node[2] + 1
        THEN dd_offer(path, "increment", <<>>, parent, parent_prob, my_children_list)
        ELSE [parent |-> parent, my_children_list |-> my_children_list])

\* Lines 358-372: the expansion of the leaf cur_node (the node of parent at path).
dd_expand(path, parent, parent_prob, my_children_list) ==
    With(NodeAt(parent, path), LAMBDA cur_node :
        IF grammar[cur_node[1] + 1].replacements[1].is_terminal # TRUE
        THEN With(NewExpansion(cur_node), LAMBDA new_expansion :
                 dd_offer(path, "expand", new_expansion, parent, parent_prob,
                          my_children_list))
        ELSE [parent |-> parent, my_children_list |-> my_children_list])

\* find_children_dd; cur_node is the node of parent at path.  The loop of the
\* else branch from position x on is find_children_dd_from.
RECURSIVE find_children_dd(_, _, _, _), find_children_dd_from(_, _, _, _, _)
find_children_dd_from(path, x, parent, parent_prob, my_children_list) ==
    IF x > Len(NodeAt(parent, path)[3])
    THEN [parent |-> parent, my_children_list |-> my_children_list]
    ELSE With(find_children_dd(Append(path, x), parent, parent_prob, my_children_list),
              LAMBDA t : find_children_dd_from(path, x + 1, t.parent, parent_prob,
                                               t.my_children_list))

find_children_dd(path, parent, parent_prob, my_children_list) ==
    IF Len(NodeAt(parent, path)[3]) = 0
    THEN With(dd_increment(path, parent, parent_prob, my_children_list),
              LAMBDA i : dd_expand(path, i.parent, parent_prob, i.my_children_list))
    ELSE find_children_dd_from(path, 1, parent, parent_prob, my_children_list)

\* PcfgClass.deadbeat_dad: [pt |-> the argument as the call leaves it,
\*                          my_children_list |-> the list returned].
deadbeat_dad(pt, parent_prob) ==
    With(find_children_dd(<<>>, pt, parent_prob, <<>>),
         LAMBDA t : [pt |-> t.parent, my_children_list |-> t.my_children_list])

-----------------------------------------------------------------------------
(* QueueItem and heapq (priority_queue.py 31-64; CPython's heapq).         *)

QueueItem(is_terminal, probability, parse_tree) ==
    [is_terminal |-> is_terminal, probability |-> probability, parse_tree |-> parse_tree]

\* The opposite order: the less probable item is the "smaller" one.
QueueItem_lt_least_first(self, other) == PLt(self.probability, other.probability)

\* QueueItem.__lt__: the more probable item is the "smaller" one.
QueueItem_lt(self, other) == PLt(other.probability, self.probability)

\* heapq._siftdown(heap, startpos, pos); positions are 0-based as in CPython.
RECURSIVE siftdown_loop(_, _, _, _)
siftdown_loop(heap, startpos, pos, newitem) ==
    IF pos > startpos /\ QueueItem_lt(newitem, heap[((pos - 1) \div 2) + 1])
    THEN siftdown_loop(ReplaceAt(heap, pos + 1, heap[((pos - 1) \div 2) + 1]),
                       startpos, (pos - 1) \div 2, newitem)
    ELSE ReplaceAt(heap, pos + 1, newitem)

siftdown(heap, startpos, pos) == siftdown_loop(heap, startpos, pos, heap[pos + 1])

\* heapq._siftup(heap, pos).
RECURSIVE siftup_loop(_, _, _, _)
siftup_loop(heap, startpos, pos, newitem) ==
    IF 2 * pos + 1 < Len(heap) THEN
        \* childpos: the "smaller" child, the right one unless the left is < it
        With(IF 2 * pos + 2 < Len(heap)
                /\ ~QueueItem_lt(heap[2 * pos + 2], heap[2 * pos + 3])
             THEN 2 * pos + 2 ELSE 2 * pos + 1,
             LAMBDA childpos :
                 siftup_loop(ReplaceAt(heap, pos + 1, heap[childpos + 1]),
                             startpos, childpos, newitem))
    ELSE siftdown(ReplaceAt(heap, pos + 1, newitem), startpos, pos)

siftup(heap, pos) == siftup_loop(heap, pos, pos, heap[pos + 1])

heappush(heap, item) == siftdown(Append(heap, item), 0, Len(heap))

\* heapq.heappop on a non-empty heap: [item |-> the item returned, heap |-> the heap left].
\* (On an empty heap heappop raises IndexError; the callers below test for it.)
heappop(heap) ==
    IF Len(heap) > 1
    THEN [item |-> heap[1],
          heap |-> siftup(ReplaceAt(SubSeq(heap, 1, Len(heap) - 1), 1, heap[Len(heap)]), 0)]
    ELSE [item |-> heap[Len(heap)], heap |-> <<>>]

-----------------------------------------------------------------------------
(* PcfgQueue (priority_queue.py 93-304).  self is the record               *)
(*   [p_queue, max_probability, min_probability,   the object's fields     *)
(*    popped, trims, rebuilds, last_trim,           history                 *)
(*    rebuilt, offered,                                                     *)
(*    raised]                                       "" or the exception     *)

\* trim_queue, lines 139-142: item = heappop(); while item.probability ==
\* min_probability: push it on keep_list, pop the next.
RECURSIVE trim_ties(_, _, _)
trim_ties(heap, keep_list, min) ==
    IF Len(heap) = 0
    THEN [heap |-> heap, keep_list |-> keep_list, min |-> min, raised |-> "IndexError"]
    ELSE With(heappop(heap), LAMBDA p :
             IF p.item.probability = min
             THEN trim_ties(p.heap, heappush(keep_list, p.item), min)
             ELSE [heap |-> p.heap, keep_list |-> keep_list, min |-> min, raised |-> ""])

\* trim_queue, lines 130-142: the for loop from index on.
RECURSIVE trim_for(_, _, _, _)
trim_for(heap, keep_list, min, index) ==
    IF index >= max_queue_size - reduction_size
    THEN [heap |-> heap, keep_list |-> keep_list, min |-> min, raised |-> ""]
    ELSE IF Len(heap) = 0
    THEN [heap |-> heap, keep_list |-> keep_list, min |-> min, raised |-> "IndexError"]
    ELSE With(heappop(heap), LAMBDA p :
         With(heappush(keep_list, p.item), LAMBDA kept :
             IF index = (max_queue_size - reduction_size) - 1
             THEN trim_ties(p.heap, kept, p.item.probability)
             ELSE trim_for(p.heap, kept, min, index + 1)))

\* trim_queue: [self |-> the object after the call, ret |-> the value returned].
\* When heappop raises, p_queue is the list as the pops left it and keep_list is lost.
\* last_trim records the call: the queue it was given, the queue and min_probability
\* it left, and what it returned (or the exception it raised).
trim_queue(self) ==
    With(trim_for(self.p_queue, <<>>, self.min_probability, 0), LAMBDA t :
        IF t.raised # ""
        THEN [self |-> [self EXCEPT !.p_queue = t.heap, !.min_probability = t.min,
                                    !.trims = @ + 1, !.raised = t.raised,
                                    !.last_trim = [before |-> self.p_queue, after |-> t.heap,
                                                   min_probability |-> t.min,
                                                   ret |-> t.raised]],
              ret |-> "NONE"]
        ELSE With(IF Len(self.p_queue) = Len(t.keep_list)
                  THEN "QUEUE_FULL_ERROR" ELSE "STATUS_OK", LAMBDA status :
                 [self |-> [self EXCEPT !.p_queue = t.keep_list, !.min_probability = t.min,
                                        !.trims = @ + 1,
                                        !.last_trim = [before |-> self.p_queue,
                                                       after |-> t.keep_list,
                                                       min_probability |-> t.min,
                                                       ret |-> status]],
                  ret |-> status]))

\* trim_if_over without the call of trim_queue.
trim_if_over_never(self) == self

\* Lines 261-263 and 173-175: trim when the queue is over max_queue_size; the
\* value trim_queue returns is dropped.
trim_if_over(self) ==
    IF Len(self.p_queue) > max_queue_size THEN trim_queue(self).self ELSE self

\* find_my_children, lines 225-229: lowest_prob is never updated in the loop.
RECURSIVE find_my_children_index(_, _, _, _)
find_my_children_index(prob_list, lowest_prob, parent_index, index) ==
    IF index > Len(prob_list) THEN parent_index
    ELSE find_my_children_index(prob_list, lowest_prob,
             IF PLt(prob_list[index][2], lowest_prob) THEN index ELSE parent_index,
             index + 1)

RECURSIVE find_my_children(_, _)
find_my_children(q_item, children_list) ==
    IF Len(children_list) = 0 THEN <<>>
    ELSE With(findMyParents(Head(children_list)), LAMBDA parent_list :
         With([i \in 1..Len(parent_list) |->
                  <<parent_list[i], find_probability(parent_list[i])>>], LAMBDA prob_list :
             (IF prob_list[find_my_children_index(prob_list, prob_list[1][2], 1, 2)][1]
                     = q_item.parse_tree
              THEN << Head(children_list) >> ELSE <<>>)
             \o find_my_children(q_item, Tail(children_list))))

\* The QueueItems built at line 208 and at line 297.
ChildItems(my_children_list) ==
    [i \in 1..Len(my_children_list) |->
        QueueItem(find_is_terminal(my_children_list[i]),
                  find_probability(my_children_list[i]), my_children_list[i])]

\* A rebuild_from_max that pays no attention to max_probability.
rebuild_from_max_any(self, q_item) ==
    IF PLe(self.min_probability, q_item.probability)
    THEN [self |-> [self EXCEPT
                       !.p_queue = heappush(@, q_item),
                       !.rebuilt = Append(@, [item |-> q_item,
                                              max_probability |-> self.max_probability,
                                              min_probability |-> self.min_probability])],
          ret_list |-> <<>>]
    ELSE [self |-> self, ret_list |-> <<>>]

\* rebuild_from_max: [self |-> the object after the call, ret_list |-> the list returned].
rebuild_from_max(self, q_item) ==
    IF PLe(q_item.probability, self.max_probability) THEN
        IF \E parent \in Range(findMyParents(q_item.parse_tree)) :
               PLe(find_probability(parent), self.max_probability)
        THEN [self |-> self, ret_list |-> <<>>]
        ELSE IF PLe(self.min_probability, q_item.probability)
        THEN [self |-> [self EXCEPT
                           !.p_queue = heappush(@, q_item),
                           !.rebuilt = Append(@, [item |-> q_item,
                                                  max_probability |-> self.max_probability,
                                                  min_probability |-> self.min_probability])],
              ret_list |-> <<>>]
        ELSE [self |-> self, ret_list |-> <<>>]
    ELSE [self |-> self,
          ret_list |-> ChildItems(find_my_children(q_item, find_children(q_item.parse_tree)))]

\* rebuild_queue, lines 170-178: the while loop over rebuild_list.
RECURSIVE rebuild_loop(_, _)
rebuild_loop(self, rebuild_list) ==
    IF Len(rebuild_list) = 0 THEN self
    ELSE With(rebuild_from_max(self, Head(rebuild_list)), LAMBDA r :
         With(trim_if_over(r.self), LAMBDA t :
             IF t.raised # "" THEN t
             ELSE rebuild_loop(t, Tail(rebuild_list) \o r.ret_list)))

\* rebuild_queue: the object after the call (next_function drops the value returned).
rebuild_queue(self) ==
    With([self EXCEPT !.p_queue = <<>>, !.min_probability = P0, !.rebuilds = @ + 1,
                      !.rebuilt = <<>>],
         LAMBDA cleared :
             IF start_index = -1 THEN cleared
             ELSE rebuild_loop(cleared, << QueueItem(FALSE, P1, <<start_index, 0, <<>> >>) >>))

\* PcfgQueue.deadbeat_dad, lines 296-304: the loop over the child nodes.
\* A loop that pushes every child whatever min_probability is.
RECURSIVE push_children_unfiltered(_, _, _)
push_children_unfiltered(self, queue_item, child_nodes) ==
    IF Len(child_nodes) = 0 THEN self
    ELSE push_children_unfiltered(
             [self EXCEPT !.p_queue = heappush(@, Head(child_nodes)),
                          !.offered = Append(@, [item |-> Head(child_nodes),
                                                 min_probability |-> self.min_probability,
                                                 pushed |-> TRUE])],
             queue_item, Tail(child_nodes))

\* offered records each child_node with the min_probability it met and whether
\* it was pushed.
RECURSIVE push_children(_, _, _)
push_children(self, queue_item, child_nodes) ==
    IF Len(child_nodes) = 0 THEN self
    ELSE push_children(
             IF PLe(Head(child_nodes).probability, queue_item.probability)
                /\ PLe(self.min_probability, Head(child_nodes).probability)
             THEN [self EXCEPT !.p_queue = heappush(@, Head(child_nodes)),
                               !.offered = Append(@, [item |-> Head(child_nodes),
                                                      min_probability |-> self.min_probability,
                                                      pushed |-> TRUE])]
             ELSE [self EXCEPT !.offered = Append(@, [item |-> Head(child_nodes),
                                                      min_probability |-> self.min_probability,
                                                      pushed |-> FALSE])],
             queue_item, Tail(child_nodes))

\* PcfgQueue.deadbeat_dad: [self |-> the object after the call,
\*                          queue_item |-> the item, its parse_tree as the call leaves it].
queue_deadbeat_dad(self, queue_item) ==
    With(deadbeat_dad(queue_item.parse_tree, queue_item.probability), LAMBDA d :
        [self |-> push_children(self, queue_item, ChildItems(d.my_children_list)),
         queue_item |-> [queue_item EXCEPT !.parse_tree = d.pt]])

\* What the loops of next_function go by: the fields of the object they read.
\* The loops are deterministic, so a call that meets the same fields a second
\* time at the head of its loop repeats the same steps for ever.
LoopState(self) ==
    [p_queue |-> self.p_queue, min_probability |-> self.min_probability,
     max_probability |-> self.max_probability]

\* next_function from the head of its while loop (lines 242-268), seen the
\* LoopStates this call has been through at that point.
\*     [self |-> the object after the call, ret |-> the value returned,
\*      appended |-> what was appended to queue_item_list]
\* ret is "NEVER_RETURNS" for a call that loops for ever; self is then the object
\* as it is each time the loop comes round.
RECURSIVE next_function_loop(_, _)
next_function_loop(self, seen) ==
    IF LoopState(self) \in seen
    THEN [self |-> self, ret |-> "NEVER_RETURNS", appended |-> <<>>]
    ELSE IF Len(self.p_queue) = 0 THEN
        IF self.min_probability # P0
        THEN With(rebuild_queue(self), LAMBDA r :
                 IF r.raised # ""
                 THEN [self |-> r, ret |-> r.raised, appended |-> <<>>]
                 ELSE next_function_loop(r, seen \cup {LoopState(self)}))
        ELSE [self |-> self, ret |-> "QUEUE_EMPTY", appended |-> <<>>]
    ELSE
        With(heappop(self.p_queue), LAMBDA p :
        With(queue_deadbeat_dad([self EXCEPT !.p_queue = p.heap,
                                             !.max_probability = p.item.probability,
                                             !.popped = Append(@, p.item.parse_tree)],
                                p.item), LAMBDA d :
        With(trim_if_over(d.self), LAMBDA t :
            IF t.raised # "" THEN [self |-> t, ret |-> t.raised, appended |-> <<>>]
            ELSE IF d.queue_item.is_terminal = TRUE
            THEN [self |-> t, ret |-> "STATUS_OK", appended |-> << d.queue_item >>]
            ELSE next_function_loop(t, seen \cup {LoopState(self)}))))

\* next_function: a call, from its first pass through the loop.
next_function(self) == next_function_loop(self, {})

\* initialize: [self |-> the object after the call, ret |-> the value returned,
\*              index |-> what start_index() returned].
initialize(self) ==
    With(start_index, LAMBDA index :
        IF index = -1 THEN [self |-> self, ret |-> "GRAMMAR_ERROR", index |-> index]
        ELSE [self |-> [self EXCEPT !.p_queue =
                           heappush(@, QueueItem(FALSE, find_probability(<<index, 0, <<>> >>),
                                                 <<index, 0, <<>> >>))],
              ret |-> "STATUS_OK", index |-> index])

-----------------------------------------------------------------------------
(* The expander (core_grammar.py 100-169).  Python values are tagged:      *)
(*   <<"str", chars>>    a string, chars the sequence of its characters    *)
(*   <<"list", items>>   a list object; the items are values               *)
(*   <<"default">>       a reference to the list object that is the        *)
(*                       default value of expand_terminals' parameter      *)
(*                       working_value (line 133): Python builds it once,  *)
(*                       when the def is executed, and every call that     *)
(*                       omits the argument gets that same object; dflt    *)
(*                       is the sequence of its items                      *)
(*   <<"raised", name>>  the exception that ended the call                 *)
(* In the grammars of the model a Shadow's child is a Capitalization and a *)
(* Capitalization is the child of a Shadow, so the list cur_dic['values']  *)
(* is never appended to and the words to capitalize are strings.           *)

PyStr(chars) == <<"str", chars>>
PyList(items) == <<"list", items>>
DefaultRef == <<"default">>
Raised(name) == <<"raised", name>>

\* The list cur_dic['values'].
Values(cur_dic) == PyList([i \in 1..Len(cur_dic.values) |-> PyStr(cur_dic.values[i])])

\* The object a value denotes, dflt being the items of the default list.
Deref(v, dflt) == IF v[1] = "default" THEN PyList(dflt) ELSE v

\* The elements "for x in v" runs through, v being a string or a list.
PyIter(v) == IF v[1] = "str" THEN [i \in 1..Len(v[2]) |-> PyStr(<< v[2][i] >>)] ELSE v[2]

\* a + b: concatenation of two strings or of two lists, TypeError otherwise.
PyAdd(a, b) == IF a[1] = b[1] THEN << a[1], a[2] \o b[2] >> ELSE Raised("TypeError")

\* A value with every reference to the default list replaced by the list.
RECURSIVE Resolve(_, _)
Resolve(v, dflt) ==
    IF v[1] = "default" THEN Resolve(PyList(dflt), dflt)
    ELSE IF v[1] = "list" THEN PyList([i \in 1..Len(v[2]) |-> Resolve(v[2][i], dflt)])
    ELSE v

\* str.upper() on one character.
LowerCase == <<"a", "b", "c", "d", "e", "f", "g", "h", "i", "j", "k", "l", "m",
               "n", "o", "p", "q", "r", "s", "t", "u", "v", "w", "x", "y", "z">>
UpperCase == <<"A", "B", "C", "D", "E", "F", "G", "H", "I", "J", "K", "L", "M",
               "N", "O", "P", "Q", "R", "S", "T", "U", "V", "W", "X", "Y", "Z">>
Upper(c) ==
    IF \E i \in 1..26 : LowerCase[i] = c
    THEN UpperCase[CHOOSE i \in 1..26 : LowerCase[i] = c]
    ELSE c

\* The first exception in a sequence of values, or the list of them.
ListOrRaised(values) ==
    IF \E k \in 1..Len(values) : values[k][1] = "raised"
    THEN values[CHOOSE k \in 1..Len(values) :
                    /\ values[k][1] = "raised"
                    /\ \A j \in 1..(k - 1) : values[j][1] # "raised"]
    ELSE PyList(values)

\* expand_final_string, lines 120-125: frontString + back_string for every
\* frontString of guess_combos[0] and, within it, every back_string.
expand_product(fronts, backs, dflt) ==
    ListOrRaised([k \in 1..(Len(fronts) * Len(backs)) |->
                     PyAdd(Deref(fronts[((k - 1) \div Len(backs)) + 1], dflt),
                           Deref(backs[((k - 1) % Len(backs)) + 1], dflt))])

\* expand_final_string on the list guess_combos.  On an empty list the code
\* calls itself on guess_combos[1:] = [] until Python raises RecursionError.
RECURSIVE expand_final_string(_, _)
expand_final_string(guess_combos, dflt) ==
    With(Deref(guess_combos, dflt)[2], LAMBDA combos :
        IF Len(combos) = 1 THEN combos[1]
        ELSE IF Len(combos) = 0 THEN Raised("RecursionError")
        ELSE With(expand_final_string(PyList(Tail(combos)), dflt), LAMBDA recursiveStrings :
                 IF recursiveStrings[1] = "raised" THEN recursiveStrings
                 ELSE expand_product(PyIter(Deref(combos[1], dflt)),
                                     PyIter(Deref(recursiveStrings, dflt)), dflt)))

\* Lines 153-158: one word under one rule, from letterPos on.  rule[letterPos]
\* raises IndexError past the end of the rule.
RECURSIVE capitalize(_, _, _, _)
capitalize(rule, word, letterPos, temp_word) ==
    IF letterPos > Len(word) THEN PyStr(temp_word)
    ELSE IF letterPos > Len(rule) THEN Raised("IndexError")
    ELSE capitalize(rule, word, letterPos + 1,
                    Append(temp_word, IF rule[letterPos] = "U" THEN Upper(word[letterPos])
                                      ELSE word[letterPos]))

\* Lines 150-160: every rule of cur_dic['values'] and, within it, every word
\* of cur_combo.
expand_capitalization(rules, cur_combo) ==
    ListOrRaised([k \in 1..(Len(rules) * Len(cur_combo)) |->
                     capitalize(rules[((k - 1) \div Len(cur_combo)) + 1],
                                cur_combo[((k - 1) % Len(cur_combo)) + 1][2], 1, <<>>)])

\* expand_terminals returns [value |-> what the call returns or raises,
\*                           dflt |-> the items of the default list after it].
RECURSIVE expand_terminals(_, _, _), expand_transparent(_, _, _, _)
\* Lines 163-164: cur_combo.append(self.expand_terminals(rule)) for the rules
\* of cur_section[2] from position x on.  The inner call omits working_value,
\* so it works on the default list; cur_combo is that list or another one.
expand_transparent(cur_section, x, cur_combo, dflt) ==
    IF x > Len(cur_section[3]) THEN [value |-> cur_combo, dflt |-> dflt]
    ELSE With(expand_terminals(cur_section[3][x], DefaultRef, dflt), LAMBDA r :
             IF r.value[1] = "raised" THEN r
             ELSE IF cur_combo[1] = "default"
             THEN expand_transparent(cur_section, x + 1, cur_combo, Append(r.dflt, r.value))
             ELSE expand_transparent(cur_section, x + 1,
                                     PyList(Append(cur_combo[2], r.value)), r.dflt))

expand_terminals(cur_section, working_value, dflt) ==
    With(Replacement(cur_section), LAMBDA cur_dic :
        CASE cur_dic.function = "Copy" -> [value |-> Values(cur_dic), dflt |-> dflt]
          [] cur_dic.function = "Shadow" ->
                IF Len(cur_section[3]) = 0
                THEN [value |-> Raised("IndexError"), dflt |-> dflt]
                ELSE expand_terminals(cur_section[3][1], Values(cur_dic), dflt)
          [] cur_dic.function = "Capitalization" ->
                [value |-> expand_capitalization(cur_dic.values,
                                                 Deref(working_value, dflt)[2]),
                 dflt |-> dflt]
          [] cur_dic.function = "Transparent" ->
                expand_transparent(cur_section, 1, working_value, dflt)
          [] OTHER -> [value |-> Raised("Exception"), dflt |-> dflt])

\* list_terminals: expand_terminals on a new list, then expand_final_string.
list_terminals(pre_terminal, dflt) ==
    With(expand_terminals(pre_terminal, PyList(<<>>), dflt), LAMBDA guess_combos :
        IF guess_combos.value[1] = "raised" THEN guess_combos
        ELSE [value |-> Resolve(expand_final_string(guess_combos.value, guess_combos.dflt),
                                guess_combos.dflt),
              dflt |-> guess_combos.dflt])

-----------------------------------------------------------------------------
(* copy_node on Python's objects.  A parse tree is a list object           *)
(* [g, r, children] whose third item refers to another list object, the    *)
(* list of the child trees.  The objects live in a store, a sequence of    *)
(* cells addressed by position; a "node" cell holds g, r and the address   *)
(* ref of its children list, a "list" cell the addresses items of the      *)
(* child nodes.                                                            *)

NodeCell(g, r, ref) == [kind |-> "node", g |-> g, r |-> r, ref |-> ref, items |-> <<>>]
ListCell(items) == [kind |-> "list", g |-> 0, r |-> 0, ref |-> 0, items |-> items]

\* The store with the tree pt built in it, and the address of its root.
RECURSIVE AllocTree(_, _), AllocList(_, _, _, _)
AllocList(store, trees, x, items) ==
    IF x > Len(trees)
    THEN [store |-> Append(store, ListCell(items)), addr |-> Len(store) + 1]
    ELSE With(AllocTree(store, trees[x]), LAMBDA a :
             AllocList(a.store, trees, x + 1, Append(items, a.addr)))

AllocTree(store, pt) ==
    With(AllocList(store, pt[3], 1, <<>>), LAMBDA l :
        [store |-> Append(l.store, NodeCell(pt[1], pt[2], l.addr)),
         addr |-> Len(l.store) + 1])

\* The tree the node object at addr holds.
RECURSIVE Value(_, _)
Value(store, addr) ==
    << store[addr].g, store[addr].r,
       [i \in 1..Len(store[store[addr].ref].items) |->
           Value(store, store[store[addr].ref].items[i])] >>

\* The list objects the tree at addr is made of: the node, its children list,
\* and those of its children.
RECURSIVE Cells(_, _)
Cells(store, addr) ==
    {addr, store[addr].ref}
        \cup UNION { Cells(store, a) : a \in Range(store[store[addr].ref].items) }

RECURSIVE copy_node_in(_, _), copy_node_items(_, _, _, _)
\* Lines 222-224: item_node.append(self.copy_node(item)) for the items of
\* pt[2] from position x on.
copy_node_items(store, pt, x, item_node) ==
    IF x > Len(store[store[pt].ref].items) THEN store
    ELSE With(copy_node_in(store, store[store[pt].ref].items[x]), LAMBDA c :
             copy_node_items(
                 ReplaceAt(c.store, item_node,
                           ListCell(Append(c.store[item_node].items, c.addr))),
                 pt, x + 1, item_node))

\* copy_node that stores pt[2] itself in the copy.
copy_node_in_shallow(store, pt) ==
    [store |-> Append(store, NodeCell(store[pt].g, store[pt].r, store[pt].ref)),
     addr |-> Len(store) + 1]

\* copy_node (lines 205-226) on the node object at address pt: retnode is a new
\* list, its third item a new list ([] or item_node).  (A node cell always has
\* three items, so the sanity check of line 208 passes.)
copy_node_in(store, pt) ==
    With(Len(store) + 1, LAMBDA retnode :
    With(Len(store) + 2, LAMBDA item_node :
        [store |-> copy_node_items(
                       store \o << NodeCell(store[pt].g, store[pt].r, item_node),
                                   ListCell(<<>>) >>,
                       pt, 1, item_node),
         addr |-> retnode]))

\* The changes the callers of copy_node make to the list object at address a.
\*   "r"         node[1] = node[1] + 1      (line 246)
\*   "children"  node[2] = []               (line 296)
\*   "item"      list[0] = [0, 0, []]       (line 263), list.append([0, 0, []])
\*               when the list is empty     (line 255)
mutate(store, a, how) ==
    CASE how = "r" -> ReplaceAt(store, a, [store[a] EXCEPT !.r = @ + 1])
      [] how = "children" ->
            Append(ReplaceAt(store, a, [store[a] EXCEPT !.ref = Len(store) + 1]),
                   ListCell(<<>>))
      [] how = "item" ->
            With(AllocTree(store, <<0, 0, <<>> >>), LAMBDA n :
                ReplaceAt(n.store, a,
                          ListCell(<< n.addr >> \o
                                   (IF Len(store[a].items) = 0 THEN <<>>
                                    ELSE Tail(store[a].items)))))

-----------------------------------------------------------------------------
(* The scorer, PcfgGrammar (pcfg_grammar.py).                              *)
(*  - A dict or Counter is the sequence of its <<key, value>> pairs in     *)
(*    insertion order.  A missing key of a dict raises KeyError, a missing *)
(*    key of a Counter gives 0 (lines 147-152).                            *)
(*  - A fragment is the sequence of its characters, so len(item) is Len.   *)
(*  - The detectors of lib_trainer are collaborators: what they find in an *)
(*    input is an input of parse here.                                     *)
(*  - multiword_detector is the MultiWordDetector made by                  *)
(*    create_multiword_detector with the words it was trained on, in       *)
(*    order; before that call the object has no such attribute.            *)

HasKey(dict, key) == \E i \in 1..Len(dict) : dict[i][1] = key
Get(dict, key) == dict[CHOOSE i \in 1..Len(dict) : dict[i][1] = key][2]

\* counter[item]
CounterGet(counter, item) == IF HasKey(counter, item) THEN Get(counter, item) ELSE P0

\* PcfgGrammar.__init__ (lines 35-56).
NewPcfgGrammar ==
    [count_keyboard |-> <<>>, count_years |-> <<>>, count_context_sensitive |-> <<>>,
     count_alpha |-> <<>>, count_alpha_masks |-> <<>>, count_digits |-> <<>>,
     count_other |-> <<>>, count_base_structures |-> <<>>,
     multiword_detector |-> [set |-> FALSE, threshold |-> 0, min_len |-> 0, trained |-> <<>>]]

\* The lookups of lines 154-175 in order: [table, by_len, item] for
\* self.<table>[len(item)][item] (by_len) or self.<table>[item].
LookupsOf(table, by_len, items) ==
    [i \in 1..Len(items) |-> [table |-> table, by_len |-> by_len, item |-> items[i]]]

Lookups(found) ==
    LookupsOf("count_keyboard", TRUE, found.found_walks)
    \o LookupsOf("count_years", FALSE, found.found_years)
    \o LookupsOf("count_context_sensitive", FALSE, found.found_context_sensitive_strings)
    \o LookupsOf("count_alpha", TRUE, found.found_alpha_strings)
    \o LookupsOf("count_alpha_masks", TRUE, found.found_mask_list)
    \o LookupsOf("count_digits", TRUE, found.found_digit_strings)
    \o LookupsOf("count_other", TRUE, found.found_other_strings)
    \o LookupsOf("count_base_structures", FALSE, << found.base_structure >>)

\* One lookup: the value, or KeyError when the length has no table.
Lookup(self, l) ==
    IF l.by_len
    THEN IF HasKey(self[l.table], Len(l.item))
         THEN [KeyError |-> FALSE, value |-> CounterGet(Get(self[l.table], Len(l.item)), l.item)]
         ELSE [KeyError |-> TRUE, value |-> P0]
    ELSE [KeyError |-> FALSE, value |-> CounterGet(self[l.table], l.item)]

RECURSIVE parse_product(_, _, _, _, _)
\* The loop with "except KeyError: pass" around each lookup.
parse_product_passing(self, lookups, x, cur_prob, consulted) ==
    IF x > Len(lookups) THEN [cur_prob |-> cur_prob, consulted |-> consulted]
    ELSE With(Lookup(self, lookups[x]), LAMBDA l :
             parse_product(self, lookups, x + 1,
                           IF l.KeyError THEN cur_prob ELSE PMul(cur_prob, l.value),
                           Append(consulted, lookups[x].table)))

\* Lines 153-178: cur_prob *= each lookup, from lookup x on; a KeyError ends
\* the loop with cur_prob = 0.
parse_product(self, lookups, x, cur_prob, consulted) ==
    IF x > Len(lookups) THEN [cur_prob |-> cur_prob, consulted |-> consulted]
    ELSE With(Lookup(self, lookups[x]), LAMBDA l :
             IF l.KeyError
             THEN [cur_prob |-> P0, consulted |-> Append(consulted, lookups[x].table)]
             ELSE parse_product(self, lookups, x + 1, PMul(cur_prob, l.value),
                                Append(consulted, lookups[x].table)))

\* parse without the early return of lines 122-124.
parse_without_bail(self, password, found) ==
    With(IF Len(found.found_emails) > 0 THEN "e"
         ELSE IF Len(found.found_urls) > 0 THEN "w" ELSE "o", LAMBDA category :
    With(<<"detect_keyboard_walk", "email_detection", "website_detection",
           "year_detection", "context_sensitive_detection", "alpha_detection",
           "digit_detection", "other_detection", "base_structure_creation">>,
         LAMBDA detectors :
            IF ~found.is_supported
            THEN [ret |-> <<password, "o", P0>>, consulted |-> detectors]
            ELSE With(parse_product(self, Lookups(found), 1, P1, detectors), LAMBDA p :
                     [ret |-> <<password, IF p.cur_prob # P0 THEN "p" ELSE category,
                                p.cur_prob>>,
                      consulted |-> p.consulted])))

\* parse(password), found being what the detectors find in password.
\* Returns [ret |-> the tuple returned, consulted |-> the detectors called and
\* the tables read, in order].
parse(self, password, found) ==
    With(IF Len(found.found_emails) > 0 THEN "e"
         ELSE IF Len(found.found_urls) > 0 THEN "w" ELSE "o", LAMBDA category :
    With(<<"detect_keyboard_walk", "email_detection", "website_detection">>, LAMBDA first :
        IF category \in {"e", "w"}
        THEN [ret |-> <<password, category, P0>>, consulted |-> first]
        ELSE
          With(first \o <<"year_detection", "context_sensitive_detection",
                          "alpha_detection", "digit_detection", "other_detection",
                          "base_structure_creation">>, LAMBDA detectors :
            IF ~found.is_supported
            THEN [ret |-> <<password, "o", P0>>, consulted |-> detectors]
            ELSE With(parse_product(self, Lookups(found), 1, P1, detectors), LAMBDA p :
                     [ret |-> <<password, IF p.cur_prob # P0 THEN "p" ELSE category,
                                p.cur_prob>>,
                      consulted |-> p.consulted]))))

\* Counter.most_common(): the pairs by value, largest first, equal values in
\* insertion order (a stable sort; insert places pair among the sorted ones).
RECURSIVE most_common_insert(_, _, _)
most_common_insert(sorted, pair, x) ==
    IF x > Len(sorted) THEN Append(sorted, pair)
    ELSE IF PLt(sorted[x][2], pair[2])
    THEN SubSeq(sorted, 1, x - 1) \o << pair >> \o SubSeq(sorted, x, Len(sorted))
    ELSE most_common_insert(sorted, pair, x + 1)

RECURSIVE most_common_from(_, _, _)
most_common_from(counter, x, sorted) ==
    IF x > Len(counter) THEN sorted
    ELSE most_common_from(counter, x + 1, most_common_insert(sorted, counter[x], 1))

most_common(counter) == most_common_from(counter, 1, <<>>)

reversed(list) == [i \in 1..Len(list) |-> list[Len(list) + 1 - i]]

\* Lines 83-90: the loop over prob_list from item x on; trained is the
\* sequence of words given to multiword_detector.train so far.
RECURSIVE train_loop(_, _, _, _, _)
train_loop(prob_list, x, skipped, prev_prob, trained) ==
    IF x > Len(prob_list) THEN trained
    ELSE IF skipped < 5
    THEN IF PLt(prev_prob, prob_list[x][2])
         THEN train_loop(prob_list, x + 1, skipped + 1, prob_list[x][2], trained)
         ELSE train_loop(prob_list, x + 1, skipped, prev_prob, trained)
    ELSE train_loop(prob_list, x + 1, skipped, prev_prob, Append(trained, prob_list[x][1]))

\* Lines 72-90: the loop over count_alpha.items() from pair x on.
RECURSIVE train_items(_, _, _, _)
train_items(count_alpha, x, min_len, trained) ==
    IF x > Len(count_alpha) THEN trained
    ELSE train_items(count_alpha, x + 1, min_len,
             IF count_alpha[x][1] >= min_len
             THEN train_loop(reversed(most_common(count_alpha[x][2])), 1, 0, P0, trained)
             ELSE trained)

\* create_multiword_detector: self after the call.
create_multiword_detector(self) ==
    With(4, LAMBDA min_len :
        [self EXCEPT !.multiword_detector =
            [set |-> TRUE, threshold |-> 1, min_len |-> min_len,
             trained |-> train_items(self.count_alpha, 1, min_len, <<>>)]])

\* What the detectors find in an input in which they find nothing, and parsed
\* when parse has not been called.
NoFound ==
    [found_walks |-> <<>>, found_emails |-> <<>>, found_urls |-> <<>>,
     found_years |-> <<>>, found_context_sensitive_strings |-> <<>>,
     found_alpha_strings |-> <<>>, found_mask_list |-> <<>>,
     found_digit_strings |-> <<>>, found_other_strings |-> <<>>,
     is_supported |-> TRUE, base_structure |-> <<>>]

NoParse ==
    [password |-> "", found |-> NoFound, called |-> FALSE, ret |-> <<>>,
     consulted |-> <<>>]

-----------------------------------------------------------------------------
(* The state machine: a host builds a PcfgClass over a grammar and a       *)
(* PcfgQueue, sets the queue parameters, calls initialize once and then    *)
(* next_function repeatedly; PcfgClass.deadbeat_dad may also be called     *)
(* directly on any derivation.                                             *)

\* The PcfgQueue object as a record, and back.
Self ==
    [p_queue |-> p_queue, max_probability |-> max_probability,
     min_probability |-> min_probability, popped |-> popped, trims |-> trims,
     rebuilds |-> rebuilds, last_trim |-> last_trim, rebuilt |-> rebuilt,
     offered |-> offered, raised |-> ""]

\* last_trim when no trim_queue call has been made.
NoTrim == [before |-> <<>>, after |-> <<>>, min_probability |-> P0, ret |-> "NONE"]

Store(self) ==
    /\ p_queue' = self.p_queue
    /\ max_probability' = self.max_probability
    /\ min_probability' = self.min_probability
    /\ popped' = self.popped
    /\ trims' = self.trims
    /\ rebuilds' = self.rebuilds
    /\ last_trim' = self.last_trim
    /\ rebuilt' = self.rebuilt
    /\ offered' = self.offered

\* The START node [index, 0, []] and the derivations reachable from it by find_children.
StartNode == <<start_index, 0, <<>> >>

RECURSIVE Closure(_, _)
Closure(frontier, seen) ==
    IF frontier = {} THEN seen
    ELSE With(UNION { Range(find_children(n)) : n \in frontier } \ seen,
              LAMBDA new : Closure(new, seen \cup new))

Reachable == IF start_index = -1 THEN {} ELSE Closure({StartNode}, {StartNode})

\* PcfgQueue.__init__ (lines 97-102), with the grammar and the parameters chosen.
Init ==
    /\ grammar \in Grammars
    /\ max_queue_size \in 2..MaxQueueSize
    /\ reduction_size \in 1..(max_queue_size - 1)
    /\ p_queue = <<>>
    /\ max_probability = P1
    /\ min_probability = P0
    /\ pc = "new"
    /\ ret = "NONE"
    /\ start_idx = -1
    /\ queue_item_list = <<>>
    /\ popped = <<>>
    /\ trims = 0
    /\ rebuilds = 0
    /\ last_trim = NoTrim
    /\ rebuilt = <<>>
    /\ offered = <<>>
    /\ calls = 0
    /\ dd_pt = <<>>
    /\ dd_children = <<>>
    /\ dd_after = <<>>
    /\ method = "NONE"
    /\ arg = <<>>
    /\ result = <<>>
    /\ expand_terminals_default = <<>>
    /\ pcfg_grammar = NewPcfgGrammar
    /\ parsed = NoParse

Initialize ==
    /\ pc = "new"
    /\ \E r \in {initialize(Self)} :
           /\ Store(r.self)
           /\ ret' = r.ret
           /\ start_idx' = r.index
           /\ pc' = IF r.ret = "STATUS_OK" THEN "ready" ELSE "error"
    /\ UNCHANGED <<grammar, max_queue_size, reduction_size, queue_item_list, calls,
                   dd_pt, dd_children, dd_after, method, arg, result,
                   expand_terminals_default, pcfg_grammar, parsed>>

NextFunction ==
    /\ pc = "ready"
    /\ calls < MaxCalls
    /\ \E r \in {next_function([Self EXCEPT !.last_trim = NoTrim])} :
           /\ Store(r.self)
           /\ ret' = r.ret
           /\ queue_item_list' = queue_item_list \o r.appended
           /\ pc' = IF r.self.raised # "" THEN "crashed"
                    ELSE IF r.ret = "NEVER_RETURNS" THEN "looping"
                    ELSE IF r.ret = "QUEUE_EMPTY" THEN "done" ELSE "ready"
    /\ calls' = calls + 1
    /\ UNCHANGED <<grammar, max_queue_size, reduction_size, start_idx,
                   dd_pt, dd_children, dd_after, method, arg, result,
                   expand_terminals_default, pcfg_grammar, parsed>>

\* A direct call pcfg.deadbeat_dad(pt) (parent_prob = None: it is computed from pt).
DeadbeatDad ==
    /\ pc = "ready"
    /\ \E pt \in Reachable :
          \E d \in {deadbeat_dad(pt, find_probability(pt))} :
              /\ dd_pt' = pt
              /\ dd_children' = d.my_children_list
              /\ dd_after' = d.pt
    /\ UNCHANGED <<grammar, max_queue_size, reduction_size, p_queue, max_probability,
                   min_probability, pc, ret, start_idx, queue_item_list, popped, trims,
                   rebuilds, last_trim, rebuilt, offered, calls, method, arg, result,
                   expand_terminals_default, pcfg_grammar, parsed>>

Next == Initialize \/ NextFunction \/ DeadbeatDad

Spec == Init /\ [][Next]_vars

-----------------------------------------------------------------------------
(* A second state machine, for PcfgClass alone: a host builds a PcfgClass  *)
(* over a grammar and calls its methods on derivations reachable from      *)
(* START, in any order.                                                    *)

\* What the PcfgQueue actions own stays as constructed.
QueueUnchanged ==
    UNCHANGED <<grammar, max_queue_size, reduction_size, p_queue, max_probability,
                min_probability, pc, ret, start_idx, queue_item_list, popped, trims,
                rebuilds, last_trim, rebuilt, offered, calls, dd_pt, dd_children,
                dd_after>>

\* What the PcfgGrammar actions own stays as constructed.
ScorerUnchanged == UNCHANGED <<pcfg_grammar, parsed>>

InitPure ==
    /\ grammar \in PureGrammars
    /\ max_queue_size = 2
    /\ reduction_size = 1
    /\ p_queue = <<>>
    /\ max_probability = P1
    /\ min_probability = P0
    /\ pc = "new"
    /\ ret = "NONE"
    /\ start_idx = -1
    /\ queue_item_list = <<>>
    /\ popped = <<>>
    /\ trims = 0
    /\ rebuilds = 0
    /\ last_trim = NoTrim
    /\ rebuilt = <<>>
    /\ offered = <<>>
    /\ calls = 0
    /\ dd_pt = <<>>
    /\ dd_children = <<>>
    /\ dd_after = <<>>
    /\ method = "NONE"
    /\ arg = <<>>
    /\ result = <<>>
    /\ expand_terminals_default = <<>>
    /\ pcfg_grammar = NewPcfgGrammar
    /\ parsed = NoParse

FindChildren ==
    /\ \E pt \in Reachable :
           /\ method' = "find_children"
           /\ arg' = pt
           /\ result' = find_children(pt)
    /\ UNCHANGED expand_terminals_default
    /\ QueueUnchanged
    /\ ScorerUnchanged

FindMyParents ==
    /\ \E pt \in Reachable :
           /\ method' = "findMyParents"
           /\ arg' = pt
           /\ result' = findMyParents(pt)
    /\ UNCHANGED expand_terminals_default
    /\ QueueUnchanged
    /\ ScorerUnchanged

\* copy_node(pt) on a tree built in an empty store.  result is the store after
\* the call, the addresses of the argument and of the returned tree, and which
\* of the two the host has changed since.
CopyNode ==
    /\ \E pt \in Reachable :
           \E a \in {AllocTree(<<>>, pt)} :
               \E c \in {copy_node_in(a.store, a.addr)} :
                   /\ method' = "copy_node"
                   /\ arg' = pt
                   /\ result' = [store |-> c.store, pt |-> a.addr, retnode |-> c.addr,
                                 changed |-> "none"]
    /\ UNCHANGED expand_terminals_default
    /\ QueueUnchanged
    /\ ScorerUnchanged

\* The host changes one list object of the copy, or one of the original.
Mutate ==
    /\ method = "copy_node"
    /\ result.changed = "none"
    /\ \E side \in {"pt", "retnode"} :
           \E a \in Cells(result.store, result[side]) :
               \E how \in (IF result.store[a].kind = "node" THEN {"r", "children"}
                            ELSE {"item"}) :
                   result' = [result EXCEPT !.store = mutate(result.store, a, how),
                                            !.changed = side]
    /\ UNCHANGED <<method, arg, expand_terminals_default>>
    /\ QueueUnchanged
    /\ ScorerUnchanged

\* list_terminals(pt) on a fully expanded derivation.  It leaves what the
\* nested Transparent nodes of pt appended in the default list.
ListTerminals ==
    /\ Len(expand_terminals_default) < MaxDefaultLen
    /\ \E pt \in { t \in Reachable : find_is_terminal(t) } :
           \E r \in {list_terminals(pt, expand_terminals_default)} :
               /\ method' = "list_terminals"
               /\ arg' = pt
               /\ result' = r.value
               /\ expand_terminals_default' = r.dflt
    /\ QueueUnchanged
    /\ ScorerUnchanged

\* dd_is_my_child(child, previous_parent_prob, []) as find_children_dd calls it
\* (lines 347 and 364): child is a child of a derivation pt, made from it by one
\* edit, and previous_parent_prob is pt's probability.
DdIsMyChild ==
    /\ \E pt \in Reachable :
           \E k \in 1..Len(find_children(pt)) :
               /\ method' = "dd_is_my_child"
               /\ arg' = find_children(pt)[k]
               /\ result' = dd_is_my_child(find_children(pt)[k], find_probability(pt), <<>>)
    /\ UNCHANGED expand_terminals_default
    /\ QueueUnchanged
    /\ ScorerUnchanged

\* PcfgQueue.find_my_children(pcfg, q_item, children_list) as rebuild_from_max
\* calls it (lines 204-205): children_list is find_children(q_item.parse_tree).
FindMyChildren ==
    /\ \E pt \in Reachable :
           /\ method' = "find_my_children"
           /\ arg' = pt
           /\ result' = find_my_children(
                            QueueItem(find_is_terminal(pt), find_probability(pt), pt),
                            find_children(pt))
    /\ UNCHANGED expand_terminals_default
    /\ QueueUnchanged
    /\ ScorerUnchanged

NextPure ==
    \/ FindChildren \/ FindMyParents \/ CopyNode \/ Mutate \/ ListTerminals
    \/ DdIsMyChild \/ FindMyChildren

SpecPure == InitPure /\ [][NextPure]_vars

-----------------------------------------------------------------------------
(* A third state machine, for the scorer: a host builds a PcfgGrammar,     *)
(* loads its tables, calls create_multiword_detector and then parse on an  *)
(* input.                                                                  *)

\* Fragments, by the table that may hold them: one that is in the tables of
\* ScorerMixed, one whose length has a table that does not hold it, and (for
\* the tables indexed by length) one whose length has no table.
Fragments ==
    [found_walks |-> << <<"q", "w", "e", "r">>, <<"a", "s", "d", "f">>, <<"q", "w", "e">> >>,
     found_years |-> << <<"1", "9", "9", "9">>, <<"2", "0", "0", "0">> >>,
     found_context_sensitive_strings |-> << <<"#", "1">>, <<"<", "3">> >>,
     found_alpha_strings |-> << <<"p", "a", "s", "s">>, <<"w", "o", "r", "d">>, <<"c", "a", "t">> >>,
     found_mask_list |-> << <<"U", "L", "L", "L">>, <<"U", "U", "U", "U">>, <<"U", "L", "L">> >>,
     found_digit_strings |-> << <<"1", "2">>, <<"3", "4">>, <<"1", "2", "3">> >>,
     found_other_strings |-> << <<"!">>, <<"#">>, <<"!", "!">> >>]

BaseStructures == << <<"A", "4", "D", "2">>, <<"A", "4">>, <<"D", "2">> >>

\* The tables of a grammar trained on the single password "pass12".
ScorerSingle ==
    [NewPcfgGrammar EXCEPT
        !.count_alpha = << <<4, << <<Fragments.found_alpha_strings[1], P1>> >> >> >>,
        !.count_alpha_masks = << <<4, << <<<<"L", "L", "L", "L">>, P1>> >> >> >>,
        !.count_digits = << <<2, << <<Fragments.found_digit_strings[1], P1>> >> >> >>,
        !.count_base_structures = << <<BaseStructures[1], P1>> >>]

\* Tables with an entry for the first fragment of every kind.
ScorerMixed ==
    [count_keyboard |-> << <<4, << <<Fragments.found_walks[1], Q(1, 10)>> >> >> >>,
     count_years |-> << <<Fragments.found_years[1], Q(1, 2)>> >>,
     count_context_sensitive |-> << <<Fragments.found_context_sensitive_strings[1], Q(1, 4)>> >>,
     count_alpha |-> << <<4, << <<Fragments.found_alpha_strings[1], Q(1, 2)>> >> >> >>,
     count_alpha_masks |-> << <<4, << <<Fragments.found_mask_list[1], Q(3, 4)>>,
                                     <<<<"L", "L", "L", "L">>, Q(1, 4)>> >> >> >>,
     count_digits |-> << <<2, << <<Fragments.found_digit_strings[1], Q(1, 5)>> >> >> >>,
     count_other |-> << <<1, << <<Fragments.found_other_strings[1], Q(1, 3)>> >> >> >>,
     count_base_structures |-> << <<BaseStructures[1], Q(1, 2)>>, <<BaseStructures[2], Q(1, 4)>> >>,
     multiword_detector |-> NewPcfgGrammar.multiword_detector]

ScorerGrammars == { NewPcfgGrammar, ScorerSingle, ScorerMixed }

\* What the detectors may find: up to MaxFragments fragments of any kinds, in
\* any order, e-mails or not, URLs or not, a base structure supported or not.
Kinds == DOMAIN Fragments
Picks ==
    UNION { [1..n -> { <<k, i>> : k \in Kinds, i \in 1..3 }] : n \in 0..MaxFragments }

FoundOf(picks, kind) ==
    With(SelectSeq(picks, LAMBDA pick : pick[1] = kind /\ pick[2] <= Len(Fragments[kind])),
         LAMBDA mine : [i \in 1..Len(mine) |-> Fragments[kind][mine[i][2]]])

Found(picks, emails, urls, is_supported, base_structure) ==
    [found_walks |-> FoundOf(picks, "found_walks"),
     found_emails |-> emails,
     found_urls |-> urls,
     found_years |-> FoundOf(picks, "found_years"),
     found_context_sensitive_strings |-> FoundOf(picks, "found_context_sensitive_strings"),
     found_alpha_strings |-> FoundOf(picks, "found_alpha_strings"),
     found_mask_list |-> FoundOf(picks, "found_mask_list"),
     found_digit_strings |-> FoundOf(picks, "found_digit_strings"),
     found_other_strings |-> FoundOf(picks, "found_other_strings"),
     is_supported |-> is_supported,
     base_structure |-> base_structure]

Detections ==
    { Found(picks, emails, urls, is_supported, BaseStructures[b]) :
        picks \in Picks,
        emails \in { <<>>, << "alice@example.com" >> },
        urls \in { <<>>, << "www.example.com" >> },
        is_supported \in BOOLEAN,
        b \in {1, 3} }

\* A word of a count_alpha table: "a...a" of length key ending in the i-th letter.
AlphaWord(key, i) == [j \in 1..key |-> IF j = key THEN LowerCase[i] ELSE "a"]

\* The count_alpha tables with one length (below min_len or not) and up to
\* MaxWords words of that length, counted 1..MaxCount times each, in any order.
AlphaTables ==
    { << <<key, [i \in 1..Len(counts) |-> << AlphaWord(key, i), <<counts[i], 1>> >>]>> >> :
        key \in {3, 4},
        counts \in UNION { [1..n -> 1..MaxCount] : n \in 0..MaxWords } }

InitScorer ==
    /\ grammar = <<>>
    /\ max_queue_size = 2
    /\ reduction_size = 1
    /\ p_queue = <<>>
    /\ max_probability = P1
    /\ min_probability = P0
    /\ pc = "new"
    /\ ret = "NONE"
    /\ start_idx = -1
    /\ queue_item_list = <<>>
    /\ popped = <<>>
    /\ trims = 0
    /\ rebuilds = 0
    /\ last_trim = NoTrim
    /\ rebuilt = <<>>
    /\ offered = <<>>
    /\ calls = 0
    /\ dd_pt = <<>>
    /\ dd_children = <<>>
    /\ dd_after = <<>>
    /\ method = "NONE"
    /\ arg = <<>>
    /\ result = <<>>
    /\ expand_terminals_default = <<>>
    /\ \/ /\ pcfg_grammar \in ScorerGrammars
          /\ \E found \in Detections :
                 parsed = [NoParse EXCEPT !.password = "pass12", !.found = found]
       \/ /\ \E count_alpha \in AlphaTables :
                 pcfg_grammar = [NewPcfgGrammar EXCEPT !.count_alpha = count_alpha]
          /\ parsed = NoParse

\* What the PcfgClass actions own stays as constructed.
PcfgUnchanged == UNCHANGED <<method, arg, result, expand_terminals_default>>

CreateMultiwordDetector ==
    /\ pcfg_grammar' = create_multiword_detector(pcfg_grammar)
    /\ UNCHANGED parsed
    /\ QueueUnchanged
    /\ PcfgUnchanged

\* parse(password) on the input chosen at the start.  Line 128 reads
\* self.multiword_detector, an attribute that exists once
\* create_multiword_detector has been called: the host calls that first.
Parse ==
    /\ pcfg_grammar.multiword_detector.set
    /\ ~parsed.called
    /\ \E r \in {parse(pcfg_grammar, parsed.password, parsed.found)} :
           parsed' = [parsed EXCEPT !.called = TRUE, !.ret = r.ret,
                                    !.consulted = r.consulted]
    /\ UNCHANGED pcfg_grammar
    /\ QueueUnchanged
    /\ PcfgUnchanged

NextScorer == CreateMultiwordDetector \/ Parse

SpecScorer == InitScorer /\ [][NextScorer]_vars

-----------------------------------------------------------------------------
(* Properties.                                                             *)

\* deadbeat_dad(n) as a host calls it: the list of children n is responsible for.
DDChildren(n) == deadbeat_dad(n, find_probability(n)).my_children_list

\* The parse trees of the QueueItems returned so far.
Returned == { queue_item_list[i].parse_tree : i \in 1..Len(queue_item_list) }

\* C1 -- Monotone emission: in a run of next_function in which no trim has
\* occurred, each returned derivation is at most as probable as the one returned
\* before it.
MonotoneEmission ==
    trims = 0 =>
        \A i \in 1..(Len(queue_item_list) - 1) :
            PLe(queue_item_list[i + 1].probability, queue_item_list[i].probability)

\* A run without trim that has returned three derivations, the third strictly
\* less probable than the first.
MonotoneEmissionWitness ==
    /\ trims = 0
    /\ Len(queue_item_list) >= 3
    /\ PLt(queue_item_list[3].probability, queue_item_list[1].probability)

\* C2 -- Deadbeat-dad partition: every derivation reachable from the START node,
\* other than the START node itself, occurs exactly once in the lists
\* deadbeat_dad(n) taken over all reachable n.
DeadbeatDadPartition ==
    \A c \in Reachable \ {StartNode} :
        Cardinality({ ni \in UNION { { <<n, i>> : i \in 1..Len(DDChildren(n)) } :
                                     n \in Reachable } :
                        DDChildren(ni[1])[ni[2]] = c }) = 1

\* C3 -- Coverage: when next_function has reported QUEUE_EMPTY in a run without
\* trim (nothing more can be popped), every fully expanded derivation reachable
\* from START has been popped and returned.
CoverageAtQueueEmpty ==
    (pc = "done" /\ trims = 0) =>
        \A t \in Reachable :
            find_is_terminal(t) => (t \in Range(popped) /\ t \in Returned)

\* C4 -- No duplicate derivations: no parse tree is popped from the queue more
\* than once, trims and rebuilds included.
NoDuplicatePops ==
    \A i, j \in 1..Len(popped) : popped[i] = popped[j] => i = j

\* C5 -- Deadbeat-dad rule: for a reachable derivation p and a child c of p, if
\* every other parent of c is strictly more probable than p then deadbeat_dad(p)
\* contains c, and if some parent of c is strictly less probable than p then
\* deadbeat_dad(p) does not contain c.
DeadbeatDadRule ==
    \A p \in Reachable :
        \A c \in Range(find_children(p)) :
            /\ (\A o \in Range(findMyParents(c)) \ {p} :
                    PLt(find_probability(p), find_probability(o)))
                   => c \in Range(DDChildren(p))
            /\ (\E o \in Range(findMyParents(c)) :
                    PLt(find_probability(o), find_probability(p)))
                   => c \notin Range(DDChildren(p))

\* The 0-based positions of the non-terminals of type START.
StartPositions == { i - 1 : i \in { j \in 1..Len(grammar) : grammar[j].type = "START" } }

\* C6 -- start_index() returns the position of the START non-terminal wherever
\* it sits in the grammar, and -1 only when there is none.
StartIndexFindsStart ==
    pc # "new" =>
        IF StartPositions = {} THEN start_idx = -1 ELSE start_idx \in StartPositions

\* The fully expanded derivation START -> L -> Cap of scenario S1, for either
\* position of START in the sequence.
S1Tree ==
    IF grammar = GrammarS1
    THEN <<2, 0, << <<1, 0, << <<0, 0, <<>> >> >> >> >> >>
    ELSE <<0, 0, << <<1, 0, << <<2, 0, <<>> >> >> >> >> >>

\* C7 -- Scenario S1: once initialize has run and next_function has been called,
\* the first derivation returned is START -> L -> Cap with probability 0.6.
ScenarioS1Head ==
    (grammar \in {GrammarS1, GrammarS1First} /\ (pc = "error" \/ calls >= 1)) =>
        /\ Len(queue_item_list) >= 1
        /\ queue_item_list[1].parse_tree = S1Tree
        /\ queue_item_list[1].probability = Q(6, 10)

\* C8 -- Scenario S3: the calls of next_function return (A,0,[]), then (A,1,[]),
\* then QUEUE_EMPTY.
ScenarioS3Emissions ==
    grammar = GrammarS3 =>
        /\ calls >= 1 => (/\ Len(queue_item_list) >= 1
                          /\ queue_item_list[1].parse_tree = <<0, 0, <<>> >>)
        /\ calls >= 2 => (/\ Len(queue_item_list) >= 2
                          /\ queue_item_list[2].parse_tree = <<0, 1, <<>> >>)
        /\ calls >= 3 => (Len(queue_item_list) = 2 /\ ret = "QUEUE_EMPTY")

\* The probability of the (max_queue_size - reduction_size)-th most probable entry
\* of a queue: the boundary of a trim.
Boundary(queue) ==
    CHOOSE b \in { queue[i].probability : i \in 1..Len(queue) } :
        /\ Cardinality({ i \in 1..Len(queue) : PLt(b, queue[i].probability) })
               < max_queue_size - reduction_size
        /\ Cardinality({ i \in 1..Len(queue) : PLe(b, queue[i].probability) })
               >= max_queue_size - reduction_size

\* How many of the positions in where hold item.
Count(queue, where, item) == Cardinality({ i \in where : queue[i] = item })

\* C9 -- trim_queue on a queue of more than max_queue_size entries leaves exactly
\* the entries at or above the boundary probability (the top max_queue_size -
\* reduction_size and their ties) and sets min_probability to the boundary.
TrimKeepsTopAndTies ==
    (last_trim.ret # "NONE" /\ Len(last_trim.before) > max_queue_size) =>
        /\ last_trim.min_probability = Boundary(last_trim.before)
        /\ \A item \in Range(last_trim.before) \cup Range(last_trim.after) :
               Count(last_trim.after, 1..Len(last_trim.after), item)
                   = Count(last_trim.before,
                           { i \in 1..Len(last_trim.before) :
                               PLe(Boundary(last_trim.before),
                                   last_trim.before[i].probability) },
                           item)

\* C10 -- When the trim of a next_function call cannot discard any entry (every
\* entry is at or above the boundary), trim_queue returns QUEUE_FULL_ERROR and
\* next_function returns QUEUE_FULL_ERROR.
TrimFailureReportsQueueFull ==
    (/\ last_trim.ret # "NONE"
     /\ \A i \in 1..Len(last_trim.before) :
            PLe(Boundary(last_trim.before), last_trim.before[i].probability)) =>
        (last_trim.ret = "QUEUE_FULL_ERROR" /\ ret = "QUEUE_FULL_ERROR")

\* C11 -- Every derivation rebuild_queue pushes on the queue has a probability
\* strictly below the max_probability the rebuild started with and at or above
\* the min_probability in force when it is pushed.
RebuildAdmitsBelowMax ==
    \A i \in 1..Len(rebuilt) :
        /\ PLt(rebuilt[i].item.probability, rebuilt[i].max_probability)
        /\ PLe(rebuilt[i].min_probability, rebuilt[i].item.probability)

\* The probabilities of the parse trees popped so far, in order.
PoppedProbabilities == [i \in 1..Len(popped) |-> find_probability(popped[i])]

\* C12 -- max_probability is the probability of the most recently popped
\* derivation, the popped probabilities never increase (trims and rebuilds
\* included), and between calls no queue entry is more probable than
\* max_probability.
MaxProbabilityTracksPops ==
    /\ popped # <<>> => max_probability = PoppedProbabilities[Len(popped)]
    /\ \A i \in 1..(Len(popped) - 1) :
           PLe(PoppedProbabilities[i + 1], PoppedProbabilities[i])
    /\ \A k \in 1..Len(p_queue) : PLe(p_queue[k].probability, max_probability)

\* A run that has trimmed and rebuilt the queue and popped again after the rebuild,
\* with max_probability below the probability of the first pop.
MaxProbabilityTracksPopsWitness ==
    /\ trims >= 1
    /\ rebuilds >= 1
    /\ rebuilt # <<>>
    /\ Len(popped) >= 3
    /\ PLt(max_probability, PoppedProbabilities[1])

\* C13 -- A successor of a popped derivation is pushed on the queue if and only if
\* its probability is at or above min_probability, and between calls no queue
\* entry is below min_probability.
PushIffAboveMin ==
    /\ \A i \in 1..Len(offered) :
           offered[i].pushed <=> PLe(offered[i].min_probability, offered[i].item.probability)
    /\ \A k \in 1..Len(p_queue) : PLe(min_probability, p_queue[k].probability)

\* After a trim has raised min_probability: one successor was refused, another
\* was pushed, and the queue is not empty.
PushIffAboveMinWitness ==
    /\ min_probability # P0
    /\ p_queue # <<>>
    /\ \E i \in 1..Len(offered) : ~offered[i].pushed /\ offered[i].min_probability # P0
    /\ \E i \in 1..Len(offered) : offered[i].pushed

CopyNodeIsDeepClone ==
    method = "copy_node" =>
        /\ result.changed = "none" =>
               /\ Value(result.store, result.retnode) = arg
               /\ Value(result.store, result.retnode) = copy_node(arg)
               /\ Value(result.store, result.pt) = arg
               /\ find_probability(Value(result.store, result.retnode)) = find_probability(arg)
               /\ Cells(result.store, result.retnode) \cap Cells(result.store, result.pt) = {}
        /\ result.changed = "retnode" => Value(result.store, result.pt) = arg
        /\ result.changed = "pt" => Value(result.store, result.retnode) = arg

\* A tree with children was copied and a list object below the copy's root
\* was changed: the copy is no longer equal to the original.
CopyNodeIsDeepCloneWitness ==
    /\ method = "copy_node"
    /\ Len(arg[3]) > 0
    /\ result.changed = "retnode"
    /\ Value(result.store, result.retnode) # arg
    /\ Value(result.store, result.retnode)[2] = arg[2]
    /\ Len(Value(result.store, result.retnode)[3]) = Len(arg[3])

\* Python's a < b on two parse trees [g, r, children]: element by element, a
\* proper prefix being smaller.
RECURSIVE TreeLess(_, _), ListLess(_, _, _)
ListLess(a, b, x) ==
    IF x > Len(a) THEN x <= Len(b)
    ELSE IF x > Len(b) THEN FALSE
    ELSE IF a[x] = b[x] THEN ListLess(a, b, x + 1)
    ELSE TreeLess(a[x], b[x])

TreeLess(a, b) ==
    IF a[1] # b[1] THEN a[1] < b[1]
    ELSE IF a[2] # b[2] THEN a[2] < b[2]
    ELSE ListLess(a[3], b[3], 1)

\* The parents of c that have the least probability among c's parents.
MinParents(c) ==
    { p \in Range(findMyParents(c)) :
         \A q \in Range(findMyParents(c)) : PLe(find_probability(p), find_probability(q)) }

\* C17: tie-break.  When deadbeat_dad is called on one of two or more parents
\* of a child c that share the least probability among c's parents, it
\* returns c if and only if that parent is the lexicographically smallest of
\* them.
TieBreakLexicographic ==
    dd_pt # <<>> =>
        \A c \in Range(find_children(dd_pt)) :
            (dd_pt \in MinParents(c) /\ Cardinality(MinParents(c)) >= 2) =>
                (c \in Range(dd_children)
                    <=> \A q \in MinParents(c) \ {dd_pt} : TreeLess(dd_pt, q))

\* A value that is a list of strings, and the words of such a list.
IsFlatStrings(v) == v[1] = "list" /\ \A i \in 1..Len(v[2]) : v[2][i][1] = "str"
Strings(v) == [i \in 1..Len(v[2]) |-> v[2][i][2]]

\* The subtrees of a parse tree.
RECURSIVE Nodes(_)
Nodes(pt) == {pt} \cup UNION { Nodes(pt[3][i]) : i \in 1..Len(pt[3]) }

\* The Cartesian concatenation of sequences of words, the first sequence
\* varying slowest.
RECURSIVE Cartesian(_)
Cartesian(seqs) ==
    IF Len(seqs) = 0 THEN << <<>> >>
    ELSE IF Len(seqs) = 1 THEN seqs[1]
    ELSE With(Cartesian(Tail(seqs)), LAMBDA backs :
             [k \in 1..(Len(seqs[1]) * Len(backs)) |->
                 seqs[1][((k - 1) \div Len(backs)) + 1] \o backs[((k - 1) % Len(backs)) + 1]])

\* The words a node stands for: those the expander yields for it alone when it
\* is not Transparent, and the Cartesian concatenation of its children's when
\* it is.  ok is FALSE when the expander raises below the node.
RECURSIVE Yield(_)
Yield(pt) ==
    IF Replacement(pt).function = "Transparent"
    THEN [ok |-> \A i \in 1..Len(pt[3]) : Yield(pt[3][i]).ok,
          strings |-> IF \A i \in 1..Len(pt[3]) : Yield(pt[3][i]).ok
                      THEN Cartesian([i \in 1..Len(pt[3]) |-> Yield(pt[3][i]).strings])
                      ELSE <<>>]
    ELSE With(expand_terminals(pt, PyList(<<>>), <<>>).value, LAMBDA v :
             [ok |-> IsFlatStrings(v), strings |-> IF IsFlatStrings(v) THEN Strings(v) ELSE <<>>])

\* C18: Transparent.  For a fully expanded derivation with Transparent nodes,
\* at any depth, list_terminals returns a flat list of strings, the Cartesian
\* concatenation of what the children of each Transparent node yield, in child
\* order, the first child varying slowest.
TransparentIsCartesian ==
    (/\ method = "list_terminals"
     /\ \E n \in Nodes(arg) : Replacement(n).function = "Transparent"
     /\ Yield(arg).ok)
        => /\ IsFlatStrings(result)
           /\ Strings(result) = Yield(arg).strings

\* mask applied to a word of the same length.
Masked(mask, word) ==
    [i \in 1..Len(word) |-> IF mask[i] = "U" THEN Upper(word[i]) ELSE word[i]]

\* The (mask, word) pairs of equal length, each mask with every word.
MaskedWords(masks, words) ==
    With(SelectSeq([k \in 1..(Len(masks) * Len(words)) |->
                       << masks[((k - 1) \div Len(words)) + 1],
                          words[((k - 1) % Len(words)) + 1] >>],
                   LAMBDA pair : Len(pair[1]) = Len(pair[2])),
         LAMBDA pairs : [k \in 1..Len(pairs) |-> Masked(pairs[k][1], pairs[k][2])])

\* C19: Capitalization.  For a derivation START -> Shadow -> Capitalization,
\* list_terminals returns, for the (mask, word) pairs of equal length, the word
\* upper-cased where the mask has 'U'; a pair of different lengths contributes
\* nothing and raises nothing.
CapitalizationByMask ==
    (/\ method = "list_terminals"
     /\ Replacement(arg).function = "Transparent"
     /\ Len(arg[3]) = 1
     /\ Replacement(arg[3][1]).function = "Shadow"
     /\ Len(arg[3][1][3]) = 1
     /\ Replacement(arg[3][1][3][1]).function = "Capitalization")
        => /\ IsFlatStrings(result)
           /\ Strings(result) = MaskedWords(Replacement(arg[3][1][3][1]).values,
                                            Replacement(arg[3][1]).values)

\* C20: Copy.  For a derivation whose root replacement has function Copy,
\* list_terminals returns that replacement's values: the same strings in the
\* same order.
RootCopyYieldsValues ==
    (method = "list_terminals" /\ Replacement(arg).function = "Copy")
        => /\ IsFlatStrings(result)
           /\ Strings(result) = Replacement(arg).values

\* A child of the root that is a Copy leaf, or a Shadow over a Capitalization.
IsCopyLeaf(n) == Replacement(n).function = "Copy" /\ Len(n[3]) = 0
IsShadowChain(n) ==
    /\ Replacement(n).function = "Shadow"
    /\ Len(n[3]) = 1
    /\ Replacement(n[3][1]).function = "Capitalization"
    /\ Len(n[3][1][3]) = 0

\* The number of strings the claim gives a child of the root.
ChildCount(n) ==
    IF IsCopyLeaf(n) THEN Len(Replacement(n).values)
    ELSE Len(Replacement(n[3][1]).values) * Len(Replacement(n).values)

RECURSIVE ProductFrom(_, _)
ProductFrom(children, x) ==
    IF x > Len(children) THEN 1 ELSE ChildCount(children[x]) * ProductFrom(children, x + 1)

\* C21: expander cardinality.  For a fully expanded derivation whose root is
\* Transparent and whose children are Copy leaves or Shadow+Capitalization
\* chains, list_terminals returns as many strings as the product over the
\* children of the number of values (Copy) or masks x words (Shadow chain).
ExpanderCardinality ==
    (/\ method = "list_terminals"
     /\ Replacement(arg).function = "Transparent"
     /\ Len(arg[3]) > 0
     /\ \A i \in 1..Len(arg[3]) : IsCopyLeaf(arg[3][i]) \/ IsShadowChain(arg[3][i]))
        => /\ IsFlatStrings(result)
           /\ Len(result[2]) = ProductFrom(arg[3], 1)

\* C22: scorer short-circuit.  When the e-mail or the website detector finds a
\* match, parse returns (input, category, 0), category 'e' if an e-mail was
\* found and 'w' otherwise, having called no later detector and read no
\* table; 'e' and 'w' never come with a probability other than 0.
ScorerShortCircuit ==
    parsed.called =>
        /\ (Len(parsed.found.found_emails) > 0 \/ Len(parsed.found.found_urls) > 0) =>
               /\ parsed.ret = << parsed.password,
                                  IF Len(parsed.found.found_emails) > 0 THEN "e" ELSE "w",
                                  P0 >>
               /\ parsed.consulted =
                      <<"detect_keyboard_walk", "email_detection", "website_detection">>
        /\ parsed.ret[2] \in {"e", "w"} => parsed.ret[3] = P0

\* parse was called on an input with an e-mail, a URL and fragments that the
\* tables hold with a non-zero product.
ScorerShortCircuitWitness ==
    /\ parsed.called
    /\ Len(parsed.found.found_emails) > 0
    /\ Len(parsed.found.found_urls) > 0
    /\ parsed.found.is_supported
    /\ parse_product(pcfg_grammar, Lookups(parsed.found), 1, P1, <<>>).cur_prob # P0
    /\ Len(parsed.found.found_alpha_strings) > 0
    /\ parsed.ret[2] = "e"

\* The tables hold an entry for fragment item: table[len(item)][item] when the
\* table is indexed by length, table[item] otherwise.
Held(table, by_len, item) ==
    IF by_len THEN HasKey(table, Len(item)) /\ HasKey(Get(table, Len(item)), item)
    ELSE HasKey(table, item)

Entry(table, by_len, item) ==
    IF by_len THEN Get(Get(table, Len(item)), item) ELSE Get(table, item)

\* The product of the entries of a sequence of fragments that the table holds.
RECURSIVE EntryProduct(_, _, _, _)
EntryProduct(table, by_len, items, x) ==
    IF x > Len(items) THEN P1
    ELSE PMul(Entry(table, by_len, items[x]), EntryProduct(table, by_len, items, x + 1))

\* The tables and the fragments found for them.
TablesOf(self, found) ==
    << <<self.count_keyboard, TRUE, found.found_walks>>,
       <<self.count_years, FALSE, found.found_years>>,
       <<self.count_context_sensitive, FALSE, found.found_context_sensitive_strings>>,
       <<self.count_alpha, TRUE, found.found_alpha_strings>>,
       <<self.count_alpha_masks, TRUE, found.found_mask_list>>,
       <<self.count_digits, TRUE, found.found_digit_strings>>,
       <<self.count_other, TRUE, found.found_other_strings>>,
       <<self.count_base_structures, FALSE, << found.base_structure >> >> >>

AllHeld(self, found) ==
    /\ found.is_supported
    /\ \A k \in 1..Len(TablesOf(self, found)) :
           \A x \in 1..Len(TablesOf(self, found)[k][3]) :
               Held(TablesOf(self, found)[k][1], TablesOf(self, found)[k][2],
                    TablesOf(self, found)[k][3][x])

RECURSIVE ProductOfTables(_, _)
ProductOfTables(tables, x) ==
    IF x > Len(tables) THEN P1
    ELSE PMul(EntryProduct(tables[x][1], tables[x][2], tables[x][3], 1),
              ProductOfTables(tables, x + 1))

\* C23: scorer table miss.  For an input without e-mail or URL, parse returns
\* the product of the table entries of all fragments found and of the base
\* structure; if a lookup misses (no table for the length, no entry for the
\* fragment, base structure not supported) it returns probability 0 and
\* category 'o'; the category is 'p' exactly when the probability is not 0.
ScorerTableMiss ==
    (/\ parsed.called
     /\ Len(parsed.found.found_emails) = 0
     /\ Len(parsed.found.found_urls) = 0)
        => /\ parsed.ret[1] = parsed.password
           /\ AllHeld(pcfg_grammar, parsed.found) =>
                  parsed.ret[3] = ProductOfTables(TablesOf(pcfg_grammar, parsed.found), 1)
           /\ ~AllHeld(pcfg_grammar, parsed.found) =>
                  parsed.ret[3] = P0 /\ parsed.ret[2] = "o"
           /\ parsed.ret[2] = "p" <=> parsed.ret[3] # P0
           /\ parsed.ret[2] \in {"p", "o"}

\* parse was called on an input without e-mail or URL in which the detectors
\* found a fragment the tables hold and then one whose length has no table.
ScorerTableMissWitness ==
    /\ parsed.called
    /\ Len(parsed.found.found_emails) = 0
    /\ Len(parsed.found.found_urls) = 0
    /\ parsed.found.is_supported
    /\ parsed.found.found_alpha_strings = << Fragments.found_alpha_strings[1] >>
    /\ Held(pcfg_grammar.count_alpha, TRUE, Fragments.found_alpha_strings[1])
    /\ parsed.found.found_digit_strings = << Fragments.found_digit_strings[3] >>
    /\ ~HasKey(pcfg_grammar.count_digits, 3)
    /\ Held(pcfg_grammar.count_base_structures, FALSE, parsed.found.base_structure)
    /\ parsed.ret[3] = P0

\* The five lowest distinct count values of a Counter.
FiveLowest(counter) ==
    With({ counter[i][2] : i \in 1..Len(counter) }, LAMBDA values :
        { v \in values : Cardinality({ u \in values : PLt(u, v) }) < 5 })

\* C24: multiword training.  create_multiword_detector trains the detector on
\* an alpha fragment if and only if the fragment's length is at least 4 and
\* its count is not one of the five lowest distinct counts of its length's
\* table, however many fragments share a count.
TrainedIffAboveFiveTiers ==
    pcfg_grammar.multiword_detector.set =>
        \A k \in 1..Len(pcfg_grammar.count_alpha) :
            \A i \in 1..Len(pcfg_grammar.count_alpha[k][2]) :
                (\E t \in 1..Len(pcfg_grammar.multiword_detector.trained) :
                    pcfg_grammar.multiword_detector.trained[t]
                        = pcfg_grammar.count_alpha[k][2][i][1])
                <=> /\ pcfg_grammar.count_alpha[k][1] >= 4
                    /\ pcfg_grammar.count_alpha[k][2][i][2]
                           \notin FiveLowest(pcfg_grammar.count_alpha[k][2])

\* C25: initialize returns GRAMMAR_ERROR exactly when the grammar has no
\* non-terminal of type START (the empty grammar included) and then leaves the
\* queue empty; otherwise it returns STATUS_OK and the queue holds the one
\* node (start, 0, []).
InitializeReportsGrammarError ==
    (pc # "new" /\ calls = 0) =>
        /\ ret = "GRAMMAR_ERROR" <=> StartPositions = {}
        /\ ret = "GRAMMAR_ERROR" => p_queue = <<>>
        /\ ret # "GRAMMAR_ERROR" =>
               /\ ret = "STATUS_OK"
               /\ Len(p_queue) = 1
               /\ p_queue[1].parse_tree[1] \in StartPositions
               /\ p_queue[1].parse_tree[2] = 0
               /\ p_queue[1].parse_tree[3] = <<>>


\* The number of entries of queue whose probability is not min.
AboveBoundary(queue, min) ==
    Cardinality({ i \in 1..Len(queue) : queue[i].probability # min })

\* C26 (as claimed) -- The queue is bounded: after every completed next_function
\* call, and after every trim_queue call, the queue holds at most max_queue_size
\* entries.
QueueBounded ==
    /\ (calls > 0 /\ pc \in {"ready", "done"}) => Len(p_queue) <= max_queue_size
    /\ last_trim.ret # "NONE" => Len(last_trim.after) <= max_queue_size

\* C26 -- After every completed next_function call, and after every trim_queue
\* call, the queue holds at most max_queue_size entries apart from those whose
\* probability equals min_probability (a trim keeps every entry that ties with
\* its boundary, however many there are).
QueueBoundedApartFromTies ==
    /\ (calls > 0 /\ pc \in {"ready", "done"}) =>
           AboveBoundary(p_queue, min_probability) <= max_queue_size
    /\ last_trim.ret # "NONE" =>
           AboveBoundary(last_trim.after, last_trim.min_probability) <= max_queue_size

\* A completed next_function call whose trim left more than max_queue_size entries.
QueueBoundedApartFromTiesWitness ==
    /\ calls > 0 /\ pc = "ready"
    /\ last_trim.ret = "STATUS_OK"
    /\ Len(last_trim.before) > Len(last_trim.after)
    /\ p_queue = last_trim.after
    /\ Len(p_queue) > max_queue_size


\* The children the successor relation gives n = (g, r, c): Increment and Expand
\* when c is empty, Recurse otherwise.
RECURSIVE Successors(_)
Successors(n) ==
    IF n[3] = <<>>
    THEN (IF n[2] + 1 < Len(grammar[n[1] + 1].replacements)
          THEN { <<n[1], n[2] + 1, <<>> >> } ELSE {})
         \cup
         (IF ~grammar[n[1] + 1].replacements[1].is_terminal
          THEN { <<n[1], n[2],
                   [i \in 1..Len(grammar[n[1] + 1].replacements[n[2] + 1].pos) |->
                       <<grammar[n[1] + 1].replacements[n[2] + 1].pos[i], 0, <<>> >>]>> }
          ELSE {})
    ELSE UNION { { <<n[1], n[2], ReplaceAt(n[3], i, m)>> : m \in Successors(n[3][i]) } :
                 i \in 1..Len(n[3]) }

RECURSIVE Predecessors(_, _)
Predecessors(n, unexpanded) ==
    IF n[3] = <<>>
    THEN IF n[2] > 0 THEN { <<n[1], n[2] - 1, <<>> >> } ELSE {}
    ELSE UNION { { <<n[1], n[2], ReplaceAt(n[3], i, m)>> :
                       m \in Predecessors(n[3][i], unexpanded) } : i \in 1..Len(n[3]) }
         \cup
         (IF \A i \in 1..Len(n[3]) :
                 n[3][i][2] = 0 /\ (unexpanded => n[3][i][3] = <<>>)
          THEN { <<n[1], n[2], <<>> >> } ELSE {})

\* C28 (as claimed) -- findMyParents(n) returns exactly: for an unexpanded n the
\* parent (g, r-1, []) iff r > 0; for an expanded n every tree with some c[i]
\* replaced by one of its parents, plus (g, r, []) whenever every c[i] has r = 0.
FindMyParentsCollapsesOnRZero ==
    method = "findMyParents" => Range(result) = Predecessors(arg, FALSE)

\* C28 -- findMyParents(n) returns exactly: for an unexpanded n the parent
\* (g, r-1, []) iff r > 0; for an expanded n every tree with some c[i] replaced
\* by one of its parents, plus (g, r, []) exactly when every c[i] is the
\* unexpanded (pos[i], 0, []), that is when no c[i] has a parent.
FindMyParentsExact ==
    method = "findMyParents" => Range(result) = Predecessors(arg, TRUE)

\* findMyParents of a derivation whose only child has r = 0 and is expanded: the
\* result is the tree with that child collapsed, not the collapsed derivation.
FindMyParentsExactWitness ==
    /\ method = "findMyParents"
    /\ Len(arg[3]) = 1
    /\ arg[3][1][2] = 0
    /\ arg[3][1][3] # <<>>
    /\ result = << <<arg[1], arg[2], << <<arg[3][1][1], 0, <<>> >> >> >> >>


\* The derivation tree t is well formed at every node (g, r, children).
RECURSIVE WellFormed(_)
WellFormed(t) ==
    /\ t[1] \in 0..(Len(grammar) - 1)
    /\ t[2] \in 0..(Len(grammar[t[1] + 1].replacements) - 1)
    /\ t[3] # <<>> =>
           /\ Len(t[3]) = Len(Replacement(t).pos)
           /\ \A i \in 1..Len(t[3]) :
                  /\ t[3][i][1] = Replacement(t).pos[i]
                  /\ WellFormed(t[3][i])

\* C29 -- Every derivation tree in the queue, popped, returned by next_function,
\* returned by deadbeat_dad or returned by find_children (on a derivation
\* reachable from START) is well formed: r is a replacement index of g, and a
\* non-empty children list has the length of replacement r's pos list with
\* children[i].g = pos[i].
TreesWellFormed ==
    /\ \A i \in 1..Len(p_queue) : WellFormed(p_queue[i].parse_tree)
    /\ \A i \in 1..Len(popped) : WellFormed(popped[i])
    /\ \A i \in 1..Len(queue_item_list) : WellFormed(queue_item_list[i].parse_tree)
    /\ \A i \in 1..Len(dd_children) : WellFormed(dd_children[i])
    /\ pc # "new" =>
           \A pt \in Reachable :
               \A k \in 1..Len(find_children(pt)) : WellFormed(find_children(pt)[k])

\* A queue holding an expanded derivation with an incremented child, after
\* deadbeat_dad returned an expanded child.
TreesWellFormedWitness ==
    /\ \E i \in 1..Len(p_queue) :
           \E j \in 1..Len(p_queue[i].parse_tree[3]) : p_queue[i].parse_tree[3][j][2] > 0
    /\ \E i \in 1..Len(dd_children) : dd_children[i][3] # <<>>
    /\ popped # <<>>
    /\ queue_item_list # <<>>


\* Grammar invariant 2 and the range of probabilities: within each non-terminal
\* the replacement probabilities are in (0, 1] and never increase with the index.
NonIncreasing ==
    \A g \in 1..Len(grammar) :
        \A i \in 1..Len(grammar[g].replacements) :
            /\ PLt(P0, grammar[g].replacements[i].prob)
            /\ PLe(grammar[g].replacements[i].prob, P1)
            /\ \A j \in 1..(i - 1) :
                   PLe(grammar[g].replacements[i].prob, grammar[g].replacements[j].prob)

\* C30 -- For a grammar whose replacement probabilities are in (0, 1] and
\* non-increasing by index, every child find_children(p) and deadbeat_dad(p)
\* return is at most as probable as p, and the queue never refuses a child for
\* being more probable than its parent: a child that was not pushed was below
\* min_probability.
ChildrenNoMoreProbable ==
    (NonIncreasing /\ pc # "new") =>
        /\ \A pt \in Reachable :
               \A k \in 1..Len(find_children(pt)) :
                   PLe(find_probability(find_children(pt)[k]), find_probability(pt))
        /\ \A k \in 1..Len(dd_children) :
               PLe(find_probability(dd_children[k]), find_probability(dd_pt))
        /\ \A i \in 1..Len(offered) :
               ~offered[i].pushed =>
                   PLt(offered[i].item.probability, offered[i].min_probability)

\* deadbeat_dad has returned a child strictly less probable than its argument and
\* one exactly as probable, and the queue has taken a child.
ChildrenNoMoreProbableWitness ==
    /\ NonIncreasing
    /\ \E k \in 1..Len(dd_children) :
           PLt(find_probability(dd_children[k]), find_probability(dd_pt))
    /\ \E pt \in Reachable :
           \E k \in 1..Len(find_children(pt)) :
               find_probability(find_children(pt)[k]) = find_probability(pt)
    /\ \E i \in 1..Len(offered) : offered[i].pushed


\* C31 -- Termination under memory pressure: no next_function call runs for
\* ever; the cycle empty queue -> rebuild -> trim does not repeat without end,
\* so a call returns and repeated calls can reach QUEUE_EMPTY.
NextFunctionReturns == pc # "looping"


\* The fully expanded derivations the queue has let go of without popping them:
\* offered by PcfgQueue.deadbeat_dad and refused for being below min_probability,
\* or pushed and later discarded by trim_queue (pushed, never popped, and no
\* longer in the queue).
LetGo ==
    { offered[i].item.parse_tree : i \in { k \in 1..Len(offered) : offered[k].item.is_terminal } }
        \ ({ p_queue[i].parse_tree : i \in 1..Len(p_queue) } \cup Range(popped))

\* C32 -- Trimming loses no guesses: once the run is over (QUEUE_EMPTY has been
\* reported, or no further call can return), every fully expanded derivation
\* that trim_queue discarded or that was refused for being below
\* min_probability has been returned by a next_function call.
TrimLosesNoGuesses ==
    pc \in {"done", "looping", "crashed"} => LetGo \subseteq Returned


\* C33 -- The parent probe of dd_is_my_child examines exactly the parents of the
\* child: every tree whose probability it compares is an element of
\* findMyParents(child), and a call that runs to the end (returns True) has
\* compared every element of findMyParents(child).
ProbesAreParents ==
    method = "dd_is_my_child" =>
        /\ Range(result.probed) \subseteq Range(findMyParents(arg))
        /\ result.ret => Range(result.probed) = Range(findMyParents(arg))


\* C34 -- list_terminals is stateless: whatever calls came before, a call returns
\* what a first call on a fresh PcfgClass returns for the same derivation, and
\* no call leaves anything behind for a later call (the default list of
\* expand_terminals stays empty).
ListTerminalsStateless ==
    /\ expand_terminals_default = <<>>
    /\ method = "list_terminals" => result = list_terminals(arg, <<>>).value


\* The parent of c with the lowest probability among findMyParents(c), the first
\* of them in the list when several have it.
FirstMinParent(c) ==
    With(findMyParents(c), LAMBDA parent_list :
        parent_list[CHOOSE k \in 1..Len(parent_list) :
            /\ \A j \in 1..Len(parent_list) :
                   PLe(find_probability(parent_list[k]), find_probability(parent_list[j]))
            /\ \A j \in 1..(k - 1) :
                   PLt(find_probability(parent_list[k]), find_probability(parent_list[j]))])

\* C35 -- find_my_children keeps a child c of q_item iff q_item's tree is the
\* parent of c with the lowest probability among findMyParents(c) (the first
\* such parent on ties), and these are the children deadbeat_dad returns for
\* that tree.
FindMyChildrenMinParent ==
    method = "find_my_children" =>
        /\ \A c \in Range(find_children(arg)) :
               c \in Range(result) <=> arg = FirstMinParent(c)
        /\ Range(result) = Range(deadbeat_dad(arg, find_probability(arg)).my_children_list)

====
